---- MODULE Spec2Model ----
(***************************************************************************)
(* Klondike solitaire rules engine (src/src/game/useGame.ts, the backend   *)
(* part: newGameState, applyMove, drawInternal, cloneState and the         *)
(* exported newGame/getState/draw/moveCards/setDrawCount), with the        *)
(* composable's hasWon and the restore entry point setState.               *)
(*                                                                         *)
(* Arrays are modelled as sequences.  The source indexes from 0, TLA+ from *)
(* 1: every pile/card index of a request keeps the source's 0-based value  *)
(* and is shifted by one only where a sequence is accessed.  An optional   *)
(* field of a PileRef is a set: {} is undefined, {n} is the number n.      *)
(*                                                                         *)
(* A call of an exported function is one step: it changes `state` as the   *)
(* function does and leaves in `call` what was called, with which          *)
(* argument, what it threw and the state it started from.  The step Return *)
(* hands the result to the caller, after which the next call can start.    *)
(*                                                                         *)
(* Values of TLA+ have no identity, so what a returned GameState shares    *)
(* with the engine's `state` is written down beside it: `held` is the      *)
(* returned value together with the levels of objects (the state object,   *)
(* the pile arrays, the card objects) that are the engine's own objects.   *)
(* The step Scribble is the caller writing into what it holds; the write   *)
(* lands in the engine's state when it hits a shared object.               *)
(*                                                                         *)
(* The deck is 4 suits of MaxRank ranks and the deal has NumPiles piles;   *)
(* the King is the card of rank MaxRank.  The bounds keep the deck at      *)
(* least as large as the deal, as 52 cards are for 7 piles, so that        *)
(* newGameState never runs out of cards.                                   *)
(***************************************************************************)
EXTENDS Integers, Sequences, FiniteSets, TLC

\* ---- bounds of the model ------------------------------------------------
\* ranks per suit (13 in the source: the deck loop and the King test)
MaxRank == 3
\* tableau piles dealt (7 in the source)
NumPiles == 3
\* number of seeds of the random generator that drives shuffle
NumSeeds == 1
\* calls of exported functions in one behaviour
MaxCalls == 4
\* cards in a tableau pile of a restored game
MaxRun == 2
\* calls in one behaviour of a game played through the selections of the view
PlayCalls == 6
\* snapshots the undo stack of the composable keeps (200 in the source)
UndoCap == 2
\* operations in one behaviour of a session of the composable
SessionCalls == 3

VARIABLES
    state,      \* the module-level `state: GameState` of the backend
    call,       \* the exported call that has just finished, until its caller takes the result
    calls,      \* number of calls made so far
    held,       \* the GameState the last call returned, in its caller's hands
    session,    \* the refs of the composable: game, selection, message, drawMode, undoStack
    event       \* the operation of the composable that has just run, and its refs before

vars == <<state, call, calls, held, session, event>>

\* ---- types and small helpers ---------------------------------------------
suits == <<"hearts", "diamonds", "clubs", "spades">>

Undefined == {}
Some(n) == {n}
IsUndefined(o) == o = {}
Val(o) == CHOOSE v \in o : TRUE

\* list[list.length - 1]; only used on non-empty lists
Top(list) == list[Len(list)]

\* Array.prototype.pop: the list without its last element
Pop(list) == SubSeq(list, 1, Len(list) - 1)

\* Array.prototype.slice(start) with the source's 0-based start
\* (a negative start counts from the end, clamped at 0)
Slice(list, start) ==
    LET from == IF start < 0
                THEN (IF Len(list) + start < 0 THEN 0 ELSE Len(list) + start)
                ELSE start
    IN  IF from >= Len(list) THEN <<>> ELSE SubSeq(list, from + 1, Len(list))

\* list[i] of the source for an integer i: TRUE when it is not undefined
HasIndex(list, i) == i >= 0 /\ i < Len(list)

\* the elements of a list
Range(list) == {list[i] : i \in DOMAIN list}

RECURSIVE Reverse(_)
Reverse(list) ==
    IF list = <<>> THEN <<>> ELSE Reverse(Tail(list)) \o <<Head(list)>>

\* ---- deal --------------------------------------------------------------------
DeckSize == Len(suits) * MaxRank

\* the nested deck loops of newGameState: suit-major, rank 1..MaxRank, id counting up
NewDeck ==
    [k \in 1..DeckSize |->
        [id |-> k - 1,
         suit |-> suits[((k - 1) \div MaxRank) + 1],
         rank |-> ((k - 1) % MaxRank) + 1]]

\* Math.random as a small linear congruential generator: the k-th value after
\* the seed, as a numerator over 64
RECURSIVE RandomAt(_, _)
RandomAt(seed, k) ==
    IF k = 0 THEN seed % 64 ELSE (RandomAt(seed, k - 1) * 13 + 7) % 64

\* Fisher-Yates of shuffle, from index i (0-based) down to 1; n counts the
\* calls of Math.random made so far
RECURSIVE ShuffleFrom(_, _, _, _)
ShuffleFrom(list, i, seed, n) ==
    IF i <= 0 THEN list
    ELSE LET j == (RandomAt(seed, n + 1) * (i + 1)) \div 64
             swapped == [list EXCEPT ![i + 1] = list[j + 1], ![j + 1] = list[i + 1]]
         IN  ShuffleFrom(swapped, i - 1, seed, n + 1)

shuffle(list, seed) == ShuffleFrom(list, Len(list) - 1, seed, 0)

Seeds == 0..(NumSeeds - 1)

\* cards popped from the deck before pile pileIndex (0-based) is dealt
DealtBefore(pileIndex) == (pileIndex * (pileIndex + 1)) \div 2

\* mutant: the first card of every pile is dealt face-up instead of the last
newGameStateFirstUp(seed) ==
    LET deck == shuffle(NewDeck, seed)
    IN  [stock |-> SubSeq(deck, 1, DeckSize - DealtBefore(NumPiles)),
         waste |-> <<>>,
         foundations |-> << <<>>, <<>>, <<>>, <<>> >>,
         tableau |-> [p \in 1..NumPiles |->
                        [c \in 1..p |->
                            [card |-> deck[DeckSize - (DealtBefore(p - 1) + c) + 1],
                             face_up |-> (c = 1)]]],
         draw_count |-> 3]

newGameState(seed) ==
    LET deck == shuffle(NewDeck, seed)
        dealt == DealtBefore(NumPiles)
        \* the c-th pop overall (1-based) takes deck[DeckSize - c + 1]
        tableau ==
            [p \in 1..NumPiles |->
                [c \in 1..p |->
                    [card |-> deck[DeckSize - (DealtBefore(p - 1) + c) + 1],
                     face_up |-> (c = p)]]]
    IN  [stock |-> SubSeq(deck, 1, DeckSize - dealt),
         waste |-> <<>>,
         foundations |-> << <<>>, <<>>, <<>>, <<>> >>,
         tableau |-> tableau,
         draw_count |-> 3]

\* ---- draw ---------------------------------------------------------------------
RECURSIVE DrawLoop(_, _)
DrawLoop(game, left) ==
    IF left = 0 \/ Len(game.stock) = 0 THEN game
    ELSE DrawLoop([game EXCEPT !.stock = Pop(game.stock),
                               !.waste = Append(game.waste, Top(game.stock))],
                  left - 1)

\* mutant: cards are taken from the front of the stock (shift for pop)
drawInternalFromFront(game) ==
    IF Len(game.stock) = 0
    THEN IF Len(game.waste) # 0
         THEN [game EXCEPT !.stock = game.stock \o Reverse(game.waste), !.waste = <<>>]
         ELSE game
    ELSE LET n == IF game.draw_count < Len(game.stock)
                  THEN game.draw_count ELSE Len(game.stock)
         IN  [game EXCEPT !.stock = SubSeq(game.stock, n + 1, Len(game.stock)),
                          !.waste = game.waste \o SubSeq(game.stock, 1, n)]

\* mutant: with nothing to recycle the loop still pushes what pop returned
drawInternalPushesUndefined(game) ==
    IF Len(game.stock) = 0
    THEN IF Len(game.waste) # 0
         THEN [game EXCEPT !.stock = game.stock \o Reverse(game.waste), !.waste = <<>>]
         ELSE [game EXCEPT !.stock = <<[id |-> -1, suit |-> "undefined", rank |-> 0]>>]
    ELSE DrawLoop(game, IF game.draw_count > 1 THEN game.draw_count ELSE 1)

\* mutant: the recycle moves the waste to the stock in the same order
drawInternalKeepsOrder(game) ==
    IF Len(game.stock) = 0
    THEN [game EXCEPT !.stock = game.waste, !.waste = <<>>]
    ELSE DrawLoop(game, IF game.draw_count > 1 THEN game.draw_count ELSE 1)

\* mutant: the draw mode is not read, three cards are always drawn
drawInternalAlwaysThree(game) ==
    IF Len(game.stock) = 0
    THEN IF Len(game.waste) # 0
         THEN [game EXCEPT !.stock = game.stock \o Reverse(game.waste), !.waste = <<>>]
         ELSE game
    ELSE DrawLoop(game, 3)

\* mutant: the call that recycles the waste goes on to draw from the new stock
drawInternalRecycleDraws(game) ==
    IF Len(game.stock) = 0
    THEN IF Len(game.waste) # 0
         THEN DrawLoop([game EXCEPT !.stock = Reverse(game.waste), !.waste = <<>>],
                       IF game.draw_count > 1 THEN game.draw_count ELSE 1)
         ELSE game
    ELSE DrawLoop(game, IF game.draw_count > 1 THEN game.draw_count ELSE 1)

\* the recycle loop pops the waste onto the stock until the waste is empty
drawInternal(game) ==
    IF Len(game.stock) = 0
    THEN IF Len(game.waste) # 0
         THEN [game EXCEPT !.stock = game.stock \o Reverse(game.waste), !.waste = <<>>]
         ELSE game
    ELSE LET drawCount == IF game.draw_count > 1 THEN game.draw_count ELSE 1
         IN  DrawLoop(game, drawCount)

\* ---- moves -----------------------------------------------------------------
isRed(suit) == suit = "hearts" \/ suit = "diamonds"

\* mutant: the colours of a pair are not compared
isValidTableauRunAnyColour(cards) ==
    /\ Len(cards) # 0
    /\ \A i \in 1..(Len(cards) - 1) : cards[i].card.rank = cards[i + 1].card.rank + 1

isValidTableauRun(cards) ==
    /\ Len(cards) # 0
    /\ \A i \in 1..(Len(cards) - 1) :
          /\ cards[i].card.rank = cards[i + 1].card.rank + 1
          /\ isRed(cards[i].card.suit) # isRed(cards[i + 1].card.suit)

\* mutant: the suit of the top card is not compared
canPlaceOnFoundationAnySuit(pile, card) ==
    IF Len(pile) # 0
    THEN card.rank = Top(pile).rank + 1
    ELSE card.rank = 1

canPlaceOnFoundation(pile, card) ==
    IF Len(pile) # 0
    THEN Top(pile).suit = card.suit /\ card.rank = Top(pile).rank + 1
    ELSE card.rank = 1

\* mutant: a face-down top card accepts like a face-up one
canPlaceOnTableauFaceDown(pile, movingCards) ==
    IF Len(pile) # 0
    THEN /\ Top(pile).card.rank = movingCards[1].rank + 1
         /\ isRed(Top(pile).card.suit) # isRed(movingCards[1].suit)
    ELSE movingCards[1].rank = MaxRank

\* mutant: an empty pile takes no card
canPlaceOnTableauNeverOnEmpty(pile, movingCards) ==
    IF Len(pile) # 0
    THEN IF ~Top(pile).face_up
         THEN FALSE
         ELSE /\ Top(pile).card.rank = movingCards[1].rank + 1
              /\ isRed(Top(pile).card.suit) # isRed(movingCards[1].suit)
    ELSE FALSE

\* mutant: the colours of the top card and the lead are not compared
canPlaceOnTableauAnyColour(pile, movingCards) ==
    IF Len(pile) # 0
    THEN Top(pile).face_up /\ Top(pile).card.rank = movingCards[1].rank + 1
    ELSE movingCards[1].rank = MaxRank

\* the King test is `lead.rank === 13` in the source; the model's highest rank is MaxRank
canPlaceOnTableau(pile, movingCards) ==
    LET lead == movingCards[1]
    IN  IF Len(pile) # 0
        THEN IF ~Top(pile).face_up
             THEN FALSE
             ELSE /\ Top(pile).card.rank = lead.rank + 1
                  /\ isRed(Top(pile).card.suit) # isRed(lead.suit)
        ELSE lead.rank = MaxRank

\* mutant: no top card is turned
flipTableauTopsNever(game) == game

\* mutant: every card of every pile is turned face-up
flipTableauTopsAll(game) ==
    [game EXCEPT !.tableau =
        [p \in DOMAIN game.tableau |->
            [i \in DOMAIN game.tableau[p] |->
                [game.tableau[p][i] EXCEPT !.face_up = TRUE]]]]

flipTableauTops(game) ==
    [game EXCEPT !.tableau =
        [p \in DOMAIN game.tableau |->
            LET pile == game.tableau[p]
            IN  IF Len(pile) # 0 /\ ~Top(pile).face_up
                THEN [pile EXCEPT ![Len(pile)].face_up = TRUE]
                ELSE pile]]

\* the result of a step of applyMove: the game as the step leaves it and the
\* message of the error it threw ("" when it threw nothing)
Done(game) == [game |-> game, thrown |-> ""]
Throw(game, message) == [game |-> game, thrown |-> message]

\* mutant: the source keeps the cards that moved
removeFromSourceKeeps(game, source) == Done(game)

\* mutant: the waste and a foundation lose the card below the top as well
removeFromSourceTakesTwo(game, source) ==
    IF source.kind = "waste"
    THEN Done([game EXCEPT !.waste = Pop(Pop(game.waste))])
    ELSE IF source.kind = "foundation"
    THEN IF HasIndex(game.foundations, source.index)
         THEN Done([game EXCEPT !.foundations[source.index + 1] = Pop(Pop(@))])
         ELSE Done(game)
    ELSE IF source.kind = "tableau"
    THEN IF HasIndex(game.tableau, source.index)
            /\ source.cardIndex <= Len(game.tableau[source.index + 1])
         THEN IF source.cardIndex < 0
              THEN Throw(game, "RangeError: Invalid array length")
              ELSE Done([game EXCEPT !.tableau[source.index + 1] =
                                        SubSeq(@, 1, source.cardIndex)])
         ELSE Done(game)
    ELSE Done(game)

\* `pile.length = n` throws a RangeError for a negative n and truncates otherwise
removeFromSource(game, source) ==
    IF source.kind = "waste"
    THEN Done([game EXCEPT !.waste = Pop(game.waste)])
    ELSE IF source.kind = "foundation"
    THEN IF HasIndex(game.foundations, source.index)
         THEN Done([game EXCEPT !.foundations[source.index + 1] = Pop(@)])
         ELSE Done(game)
    ELSE IF source.kind = "tableau"
    THEN IF HasIndex(game.tableau, source.index)
            /\ source.cardIndex <= Len(game.tableau[source.index + 1])
         THEN IF source.cardIndex < 0
              THEN Throw(game, "RangeError: Invalid array length")
              ELSE Done([game EXCEPT !.tableau[source.index + 1] =
                                        SubSeq(@, 1, source.cardIndex)])
         ELSE Done(game)
    ELSE Done(game)

NoSource == [kind |-> "none", index |-> 0, cardIndex |-> 0]

\* first part of applyMove: the cards to move and where they come from
ResolveSource(game, from) ==
    IF from.kind = "waste"
    THEN IF Len(game.waste) = 0
         THEN [thrown |-> "Waste is empty", movingCards |-> <<>>, source |-> NoSource]
         ELSE [thrown |-> "", movingCards |-> <<Top(game.waste)>>,
               source |-> [kind |-> "waste", index |-> 0, cardIndex |-> 0]]
    ELSE IF from.kind = "foundation"
    THEN IF IsUndefined(from.index)
         THEN [thrown |-> "Foundation index required", movingCards |-> <<>>, source |-> NoSource]
         ELSE IF ~HasIndex(game.foundations, Val(from.index))
         THEN [thrown |-> "Foundation index out of range", movingCards |-> <<>>,
               source |-> NoSource]
         ELSE IF Len(game.foundations[Val(from.index) + 1]) = 0
         THEN [thrown |-> "Foundation is empty", movingCards |-> <<>>, source |-> NoSource]
         ELSE [thrown |-> "",
               movingCards |-> <<Top(game.foundations[Val(from.index) + 1])>>,
               source |-> [kind |-> "foundation", index |-> Val(from.index), cardIndex |-> 0]]
    ELSE IF from.kind = "tableau"
    THEN IF IsUndefined(from.index)
         THEN [thrown |-> "Tableau index required", movingCards |-> <<>>, source |-> NoSource]
         ELSE IF IsUndefined(from.card_index)
         THEN [thrown |-> "Tableau card index required", movingCards |-> <<>>,
               source |-> NoSource]
         ELSE IF ~HasIndex(game.tableau, Val(from.index))
         THEN [thrown |-> "Tableau index out of range", movingCards |-> <<>>,
               source |-> NoSource]
         ELSE LET pile == game.tableau[Val(from.index) + 1]
                  slice == Slice(pile, Val(from.card_index))
              IN  IF Val(from.card_index) >= Len(pile)
                  THEN [thrown |-> "Tableau card index out of range", movingCards |-> <<>>,
                        source |-> NoSource]
                  ELSE IF \E i \in 1..Len(slice) : ~slice[i].face_up
                  THEN [thrown |-> "Cannot move face-down cards", movingCards |-> <<>>,
                        source |-> NoSource]
                  ELSE IF ~isValidTableauRun(slice)
                  THEN [thrown |-> "Tableau run is invalid", movingCards |-> <<>>,
                        source |-> NoSource]
                  ELSE [thrown |-> "",
                        movingCards |-> [i \in 1..Len(slice) |-> slice[i].card],
                        source |-> [kind |-> "tableau", index |-> Val(from.index),
                                    cardIndex |-> Val(from.card_index)]]
    ELSE [thrown |-> "Use draw to move from stock", movingCards |-> <<>>, source |-> NoSource]

\* mutant: the number of moving cards is not checked
PlaceOnFoundationAnyNumber(game, to, movingCards, source) ==
    IF IsUndefined(to.index)
    THEN Throw(game, "Foundation index required")
    ELSE IF ~HasIndex(game.foundations, Val(to.index))
    THEN Throw(game, "Foundation index out of range")
    ELSE IF ~canPlaceOnFoundation(game.foundations[Val(to.index) + 1], movingCards[1])
    THEN Throw(game, "Card cannot be placed on foundation")
    ELSE LET removed == removeFromSource(game, source)
         IN  IF removed.thrown # ""
             THEN removed
             ELSE Done([removed.game EXCEPT !.foundations[Val(to.index) + 1] =
                                               Append(@, movingCards[1])])

\* the foundation branch of the destination
PlaceOnFoundation(game, to, movingCards, source) ==
    IF IsUndefined(to.index)
    THEN Throw(game, "Foundation index required")
    ELSE IF ~HasIndex(game.foundations, Val(to.index))
    THEN Throw(game, "Foundation index out of range")
    ELSE IF Len(movingCards) # 1
    THEN Throw(game, "Only one card can move to foundation")
    ELSE IF ~canPlaceOnFoundation(game.foundations[Val(to.index) + 1], movingCards[1])
    THEN Throw(game, "Card cannot be placed on foundation")
    ELSE LET removed == removeFromSource(game, source)
         IN  IF removed.thrown # ""
             THEN removed
             ELSE Done([removed.game EXCEPT !.foundations[Val(to.index) + 1] =
                                               Append(@, movingCards[1])])

\* mutant: the run leaves its source before the placement rule is checked
PlaceOnTableauRemovesFirst(game, to, movingCards, source) ==
    IF IsUndefined(to.index)
    THEN Throw(game, "Tableau index required")
    ELSE IF ~HasIndex(game.tableau, Val(to.index))
    THEN Throw(game, "Tableau index out of range")
    ELSE IF Len(movingCards) = 0
    THEN Throw(game, "No cards to move")
    ELSE LET removed == removeFromSource(game, source)
         IN  IF removed.thrown # ""
             THEN removed
             ELSE IF ~canPlaceOnTableau(game.tableau[Val(to.index) + 1], movingCards)
             THEN Throw(removed.game, "Card cannot be placed on tableau")
             ELSE Done([removed.game EXCEPT !.tableau[Val(to.index) + 1] =
                          @ \o [i \in 1..Len(movingCards) |->
                                   [card |-> movingCards[i], face_up |-> TRUE]]])

\* mutant: the moved cards arrive face-down
PlaceOnTableauFaceDown(game, to, movingCards, source) ==
    IF IsUndefined(to.index)
    THEN Throw(game, "Tableau index required")
    ELSE IF ~HasIndex(game.tableau, Val(to.index))
    THEN Throw(game, "Tableau index out of range")
    ELSE IF Len(movingCards) = 0
    THEN Throw(game, "No cards to move")
    ELSE IF ~canPlaceOnTableau(game.tableau[Val(to.index) + 1], movingCards)
    THEN Throw(game, "Card cannot be placed on tableau")
    ELSE LET removed == removeFromSource(game, source)
         IN  IF removed.thrown # ""
             THEN removed
             ELSE Done([removed.game EXCEPT !.tableau[Val(to.index) + 1] =
                          @ \o [i \in 1..Len(movingCards) |->
                                   [card |-> movingCards[i], face_up |-> FALSE]]])

\* the tableau branch of the destination
PlaceOnTableau(game, to, movingCards, source) ==
    IF IsUndefined(to.index)
    THEN Throw(game, "Tableau index required")
    ELSE IF ~HasIndex(game.tableau, Val(to.index))
    THEN Throw(game, "Tableau index out of range")
    ELSE IF Len(movingCards) = 0
    THEN Throw(game, "No cards to move")
    ELSE IF ~canPlaceOnTableau(game.tableau[Val(to.index) + 1], movingCards)
    THEN Throw(game, "Card cannot be placed on tableau")
    ELSE LET removed == removeFromSource(game, source)
         IN  IF removed.thrown # ""
             THEN removed
             ELSE Done([removed.game EXCEPT !.tableau[Val(to.index) + 1] =
                          @ \o [i \in 1..Len(movingCards) |->
                                   [card |-> movingCards[i], face_up |-> TRUE]]])

\* mutant: no same-pile guard, and the placement rule looks at the destination
\* as the removal of the run leaves it
applyMoveOntoRemainder(game, request) ==
    LET resolved == ResolveSource(game, request.from)
    IN  IF resolved.thrown # ""
        THEN Throw(game, resolved.thrown)
        ELSE LET removed == removeFromSource(game, resolved.source)
                 placed ==
                    IF request.to.kind = "foundation"
                    THEN PlaceOnFoundation(game, request.to, resolved.movingCards,
                                           resolved.source)
                    ELSE IF request.to.kind = "tableau"
                    THEN IF removed.thrown # ""
                         THEN Throw(game, removed.thrown)
                         ELSE IF IsUndefined(request.to.index)
                         THEN Throw(game, "Tableau index required")
                         ELSE IF ~HasIndex(game.tableau, Val(request.to.index))
                         THEN Throw(game, "Tableau index out of range")
                         ELSE IF ~canPlaceOnTableau(
                                     removed.game.tableau[Val(request.to.index) + 1],
                                     resolved.movingCards)
                         THEN Throw(game, "Card cannot be placed on tableau")
                         ELSE Done([removed.game EXCEPT !.tableau[Val(request.to.index) + 1] =
                                      @ \o [i \in 1..Len(resolved.movingCards) |->
                                               [card |-> resolved.movingCards[i],
                                                face_up |-> TRUE]]])
                    ELSE Throw(game, "Cannot move cards to that pile")
             IN  IF placed.thrown # ""
                 THEN placed
                 ELSE Done(flipTableauTops(placed.game))

applyMove(game, request) ==
    LET resolved == ResolveSource(game, request.from)
    IN  IF resolved.thrown # ""
        THEN Throw(game, resolved.thrown)
        ELSE IF /\ request.from.kind = "tableau"
                /\ request.to.kind = "tableau"
                /\ request.from.index = request.to.index
        THEN Throw(game, "Cannot move cards onto the same tableau pile")
        ELSE LET placed ==
                    IF request.to.kind = "foundation"
                    THEN PlaceOnFoundation(game, request.to, resolved.movingCards,
                                           resolved.source)
                    ELSE IF request.to.kind = "tableau"
                    THEN PlaceOnTableau(game, request.to, resolved.movingCards,
                                        resolved.source)
                    ELSE Throw(game, "Cannot move cards to that pile")
             IN  IF placed.thrown # ""
                 THEN placed
                 ELSE Done(flipTableauTops(placed.game))

\* ---- requests --------------------------------------------------------------
NoRef(kind) == [kind |-> kind, index |-> Undefined, card_index |-> Undefined]

\* an optional number: none, or any of lo..hi
Optional(lo, hi) == {Undefined} \cup {Some(n) : n \in lo..hi}

\* foundation references offered: no index, every valid index, one below, one past the end
FoundationRefs ==
    {[kind |-> "foundation", index |-> i, card_index |-> Undefined] :
        i \in Optional(-1, Len(suits))}

\* tableau sources offered for a game: for every pile, no card index and every
\* card index from below 0 to one past its last card; and a missing or
\* out-of-range pile index
TableauSources(game) ==
    UNION {{[kind |-> "tableau", index |-> Some(p - 1), card_index |-> c] :
               c \in Optional(-1, Len(game.tableau[p]))} : p \in DOMAIN game.tableau}
    \cup {[kind |-> "tableau", index |-> i, card_index |-> c] :
             i \in {Undefined, Some(-1), Some(Len(game.tableau))},
             c \in {Undefined, Some(0)}}

TableauTargets(game) ==
    {[kind |-> "tableau", index |-> i, card_index |-> Undefined] :
        i \in Optional(-1, Len(game.tableau))}

FromRefs(game) ==
    {NoRef("stock"), NoRef("waste")} \cup FoundationRefs \cup TableauSources(game)

ToRefs(game) ==
    {NoRef("stock"), NoRef("waste")} \cup FoundationRefs \cup TableauTargets(game)

\* ---- snapshots ----------------------------------------------------------------
\* JSON.parse(JSON.stringify(card)): a new object with the card's three fields
JsonCard(card) == [id |-> card.id, suit |-> card.suit, rank |-> card.rank]

\* JSON.parse(JSON.stringify(game)): new arrays and new objects all the way
\* down, holding the five fields of a game and the numbers, strings and
\* booleans in them
JsonCopy(game) ==
    [stock |-> [i \in DOMAIN game.stock |-> JsonCard(game.stock[i])],
     waste |-> [i \in DOMAIN game.waste |-> JsonCard(game.waste[i])],
     foundations |->
        [f \in DOMAIN game.foundations |->
            [i \in DOMAIN game.foundations[f] |-> JsonCard(game.foundations[f][i])]],
     tableau |->
        [p \in DOMAIN game.tableau |->
            [i \in DOMAIN game.tableau[p] |->
                [card |-> JsonCard(game.tableau[p][i].card),
                 face_up |-> game.tableau[p][i].face_up]]],
     draw_count |-> game.draw_count]

\* the levels of objects a returned GameState can share with the engine's state
Levels == {"state", "piles", "cards"}

\* nothing is held
NoSnapshot == [value |-> Undefined, shares |-> {}]

\* mutant: a copy of the state object only, the piles and cards are the engine's
cloneStateShallow(game) == [value |-> Some(game), shares |-> {"piles", "cards"}]

\* the parsed text is made of new objects only
cloneState(game) == [value |-> Some(JsonCopy(game)), shares |-> {}]

\* what a caller can write into a GameState it holds, with the level of the
\* object written to: another draw_count, a pile without its last card, the
\* top card of a tableau pile turned over
Writes(game) ==
    {[level |-> "state", game |-> [game EXCEPT !.draw_count = 4 - @]]}
    \cup (IF game.stock = <<>> THEN {}
          ELSE {[level |-> "piles", game |-> [game EXCEPT !.stock = Pop(@)]]})
    \cup (IF game.waste = <<>> THEN {}
          ELSE {[level |-> "piles", game |-> [game EXCEPT !.waste = Pop(@)]]})
    \cup {[level |-> "piles", game |-> [game EXCEPT !.foundations[f] = Pop(@)]] :
             f \in {g \in DOMAIN game.foundations : game.foundations[g] # <<>>}}
    \cup {[level |-> "cards",
           game |-> [game EXCEPT !.tableau[p][Len(game.tableau[p])].face_up = ~@]] :
             p \in {q \in DOMAIN game.tableau : game.tableau[q] # <<>>}}

\* ---- the exported operations ---------------------------------------------
NoRequest == [from |-> NoRef("none"), to |-> NoRef("none")]

\* a finished call: the function, its argument, the message of the Error it threw
\* ("" when it returned) and the engine state it started from; `given` is the
\* GameState that setState was handed, kept until the call after it has returned
Called(name, request, drawCount, message, game) ==
    [op |-> name, request |-> request, drawCount |-> drawCount,
     thrown |-> message, before |-> game, given |-> call.given]

\* no call is in progress
Idle(game) ==
    [op |-> "none", request |-> NoRequest, drawCount |-> 0,
     thrown |-> "", before |-> game, given |-> Undefined]

CanCall == call.op = "none" /\ calls < MaxCalls

\* the refs of useGame() as they are created: no game, nothing selected, no
\* message, draw-3, an empty undo stack
NoSession ==
    [game |-> Undefined, selection |-> Undefined, message |-> "",
     drawMode |-> 3, undoStack |-> <<>>]

\* no operation of the composable has just run
NoEvent == [op |-> "none", before |-> NoSession]

newGame ==
    /\ CanCall
    /\ \E seed \in Seeds : state' = newGameState(seed)
    /\ call' = Called("newGame", NoRequest, 0, "", state)
    /\ calls' = calls + 1
    /\ UNCHANGED <<session, event>>
    /\ held' = cloneState(state')

getState ==
    /\ CanCall
    /\ state' = state
    /\ call' = Called("getState", NoRequest, 0, "", state)
    /\ calls' = calls + 1
    /\ UNCHANGED <<session, event>>
    /\ held' = cloneState(state')

draw ==
    /\ CanCall
    /\ state' = drawInternal(state)
    /\ call' = Called("draw", NoRequest, 0, "", state)
    /\ calls' = calls + 1
    /\ UNCHANGED <<session, event>>
    /\ held' = cloneState(state')

moveCards ==
    /\ CanCall
    /\ \E from \in FromRefs(state), to \in ToRefs(state) :
          LET request == [from |-> from, to |-> to]
              moved == applyMove(state, request)
          IN  /\ state' = moved.game
              /\ call' = Called("moveCards", request, 0, moved.thrown, state)
              /\ held' = IF moved.thrown = "" THEN cloneState(state') ELSE NoSnapshot
    /\ calls' = calls + 1
    /\ UNCHANGED <<session, event>>

\* mutant: only the lower limit of the draw count is checked
setDrawCountOnAtLeastOne(game, drawCount) ==
    IF drawCount < 1
    THEN Throw(game, "Draw count must be 1 or 3")
    ELSE Done([game EXCEPT !.draw_count = drawCount])

\* mutant: every draw count from 1 to 3 is taken
setDrawCountOnUpToThree(game, drawCount) ==
    IF drawCount < 1 \/ drawCount > 3
    THEN Throw(game, "Draw count must be 1 or 3")
    ELSE Done([game EXCEPT !.draw_count = drawCount])

\* the body of the exported setDrawCount, on the engine state `game`
setDrawCountOn(game, drawCount) ==
    IF drawCount # 1 /\ drawCount # 3
    THEN Throw(game, "Draw count must be 1 or 3")
    ELSE Done([game EXCEPT !.draw_count = drawCount])

\* the values offered as drawCount: 1, 3 and their neighbours
setDrawCount ==
    /\ CanCall
    /\ \E drawCount \in 0..4 :
          LET set == setDrawCountOn(state, drawCount)
          IN  /\ state' = set.game
              /\ call' = Called("setDrawCount", NoRequest, drawCount, set.thrown, state)
              /\ held' = IF set.thrown = "" THEN cloneState(state') ELSE NoSnapshot
    /\ calls' = calls + 1
    /\ UNCHANGED <<session, event>>

\* the caller writes into the GameState it has just been returned; what it
\* writes to a shared object is written to the engine's state
Scribble ==
    /\ call.op \notin {"none", "scribble"}
    /\ ~IsUndefined(held.value)
    /\ \E write \in Writes(Val(held.value)) :
          /\ held' = [held EXCEPT !.value = Some(write.game)]
          /\ state' = IF write.level \in held.shares THEN write.game ELSE state
    /\ call' = Called("scribble", NoRequest, 0, "", state)
    /\ calls' = calls
    /\ UNCHANGED <<session, event>>

\* the caller has the result (or the Error) of the call and is done with it
Return ==
    /\ call.op # "none"
    /\ call' = [Idle(state) EXCEPT
                   !.given = IF call.op = "setState" THEN call.given ELSE Undefined]
    /\ held' = NoSnapshot
    /\ UNCHANGED <<state, calls, session, event>>

Init ==
    /\ \E seed \in Seeds : state = newGameState(seed)
    /\ call = Idle(state)
    /\ calls = 0
    /\ held = NoSnapshot
    /\ session = NoSession
    /\ event = NoEvent

Next ==
    \/ newGame
    \/ getState
    \/ draw
    \/ moveCards
    \/ setDrawCount
    \/ Scribble
    \/ Return

Spec == Init /\ [][Next]_vars

\* ---- play through the view ---------------------------------------------------
\* The composable builds the requests of a game in play from a Selection (the
\* top of the waste, the top of a foundation, a face-up tableau card) and a
\* destination pile of the board: selectWaste, handleFoundationClick and
\* handleTableauCardClick choose the source, performMove makes the request.

\* the PileRefs performMove builds for the selections `game` allows
SelectedRefs(game) ==
    (IF Len(game.waste) # 0 THEN {NoRef("waste")} ELSE {})
    \cup {[kind |-> "foundation", index |-> Some(f - 1), card_index |-> Undefined] :
             f \in {g \in DOMAIN game.foundations : Len(game.foundations[g]) # 0}}
    \cup UNION {{[kind |-> "tableau", index |-> Some(p - 1), card_index |-> Some(c - 1)] :
                    c \in {d \in DOMAIN game.tableau[p] : game.tableau[p][d].face_up}} :
                   p \in DOMAIN game.tableau}

\* the destinations of performMove: a foundation or a tableau pile of the board
BoardRefs(game) ==
    {[kind |-> "foundation", index |-> Some(f - 1), card_index |-> Undefined] :
        f \in DOMAIN game.foundations}
    \cup {[kind |-> "tableau", index |-> Some(p - 1), card_index |-> Undefined] :
             p \in DOMAIN game.tableau}

\* moveCards as the view calls it
moveCardsSelected ==
    /\ CanCall
    /\ \E from \in SelectedRefs(state), to \in BoardRefs(state) :
          LET request == [from |-> from, to |-> to]
              moved == applyMove(state, request)
          IN  /\ state' = moved.game
              /\ call' = Called("moveCards", request, 0, moved.thrown, state)
              /\ held' = IF moved.thrown = "" THEN cloneState(state') ELSE NoSnapshot
    /\ calls' = calls + 1
    /\ UNCHANGED <<session, event>>

\* a deal with PlayCalls calls left
InitGame ==
    /\ \E seed \in Seeds : state = newGameState(seed)
    /\ call = Idle(state)
    /\ calls = MaxCalls - PlayCalls
    /\ held = NoSnapshot
    /\ session = NoSession
    /\ event = NoEvent

NextGame ==
    \/ newGame
    \/ draw
    \/ moveCardsSelected
    \/ setDrawCount
    \/ Return

SpecGame == InitGame /\ [][NextGame]_vars

\* ---- restored games -----------------------------------------------------------
\* The rules are also checked on games that no deal leads to: the engine's
\* state can be replaced by any GameState (the restore path used for undo and
\* for a stored game), so applyMove and drawInternal meet piles that the rules
\* would never build.  The games offered have an empty stock and foundations and
\* two tableau piles in use.

\* the cards restored games are built from: the two highest ranks of two red
\* suits and one black suit, and the Ace of spades
AnyCards ==
    {card \in Range(NewDeck) :
        \/ card.rank >= MaxRank - 1 /\ card.suit # "clubs"
        \/ card.rank = 1 /\ card.suit = "spades"}

\* the sequences of at most n different cards, none of them in `used`
RECURSIVE AnyRuns(_, _)
AnyRuns(n, used) ==
    {<<>>} \cup
    (IF n = 0 THEN {}
     ELSE UNION {{<<card>> \o rest : rest \in AnyRuns(n - 1, used \cup {card})} :
                    card \in AnyCards \ used})

\* a run as a tableau pile: all face-up, or all but the first card
AnyPiles(run) ==
    {[i \in DOMAIN run |-> [card |-> run[i], face_up |-> (i > down)]] :
        down \in IF run = <<>> THEN {0} ELSE {0, 1}}

Restored(waste, first, second) ==
    [stock |-> <<>>,
     waste |-> waste,
     foundations |-> << <<>>, <<>>, <<>>, <<>> >>,
     tableau |-> [p \in 1..NumPiles |->
                    IF p = 1 THEN first ELSE IF p = 2 THEN second ELSE <<>>],
     draw_count |-> 3]

\* a pile of up to MaxRun cards beside a pile of at most one card, the waste
\* empty; or one card in the waste beside a pile of at most one card
AnyGames ==
    UNION {UNION {{Restored(<<>>, first, second) :
                      first \in AnyPiles(run), second \in AnyPiles(top)} :
                     top \in AnyRuns(1, Range(run))} :
              run \in AnyRuns(MaxRun, {})}
    \cup UNION {UNION {{Restored(waste, <<>>, second) : second \in AnyPiles(top)} :
                          top \in AnyRuns(1, Range(waste))} :
                   waste \in AnyRuns(1, {}) \ {<<>>}}

\* a restored game with one call left
InitAny ==
    /\ state \in AnyGames
    /\ call = Idle(state)
    /\ calls = MaxCalls - 1
    /\ held = NoSnapshot
    /\ session = NoSession
    /\ event = NoEvent

SpecAny == InitAny /\ [][Next]_vars

\* ---- games at the win ----------------------------------------------------------
\* Restored games at and next to the win: every foundation built up to the King
\* or to the card below it, the Kings that are not on their foundation lying
\* face-up on the tableau piles, one to a pile, and in the waste when the piles
\* are used up; and games with fewer than four foundation piles.

\* the card of suit number s (1-based, in the order of `suits`) and rank r
CardOf(s, r) == NewDeck[(s - 1) * MaxRank + r]

\* the Kings of the suits from s on whose foundation holds fewer than MaxRank cards
RECURSIVE KingsOut(_, _)
KingsOut(lengths, s) ==
    IF s > Len(suits) THEN <<>>
    ELSE (IF lengths[s] < MaxRank THEN <<CardOf(s, MaxRank)>> ELSE <<>>)
         \o KingsOut(lengths, s + 1)

\* foundation s holds the first lengths[s] cards of its suit
NearWon(lengths) ==
    LET kings == KingsOut(lengths, 1)
    IN  [stock |-> <<>>,
         waste |-> SubSeq(kings, NumPiles + 1, Len(kings)),
         foundations |-> [s \in 1..Len(suits) |-> [r \in 1..lengths[s] |-> CardOf(s, r)]],
         tableau |-> [p \in 1..NumPiles |->
                        IF p <= Len(kings)
                        THEN <<[card |-> kings[p], face_up |-> TRUE]>>
                        ELSE <<>>],
         draw_count |-> 3]

\* only n foundation piles, all of them complete; the other suits in the stock
FewerFoundations(n) ==
    [stock |-> SubSeq(NewDeck, n * MaxRank + 1, DeckSize),
     waste |-> <<>>,
     foundations |-> [s \in 1..n |-> [r \in 1..MaxRank |-> CardOf(s, r)]],
     tableau |-> [p \in 1..NumPiles |-> <<>>],
     draw_count |-> 3]

WonGames ==
    {NearWon(lengths) : lengths \in [1..Len(suits) -> {MaxRank - 1, MaxRank}]}
    \cup {FewerFoundations(n) : n \in {0, Len(suits) - 1}}

\* a game at the win with one call left
InitWon ==
    /\ state \in WonGames
    /\ call = Idle(state)
    /\ calls = MaxCalls - 1
    /\ held = NoSnapshot
    /\ session = NoSession
    /\ event = NoEvent

SpecWon == InitWon /\ [][Next]_vars

\* ---- restore ---------------------------------------------------------------------
\* setState is imported by the composable from the backend and used by undo and
\* by simulateWin; its body is not in the sources.  It is modelled from its
\* description: it installs the GameState it is handed, whatever the rules say
\* of it, and returns a snapshot.

\* the games handed to setState: the games at the win, and the restored games
\* with a card in the waste
RestoredGames == WonGames \cup {game \in AnyGames : game.waste # <<>>}

\* mutant: a game with a face-down card on top of a tableau pile is refused
setStateOnChecked(game, given) ==
    IF \E p \in DOMAIN given.tableau :
          given.tableau[p] # <<>> /\ ~Top(given.tableau[p]).face_up
    THEN Throw(game, "Invalid state")
    ELSE Done(JsonCopy(given))

\* the body of setState, on the engine state `game`
setStateOn(game, given) == Done(JsonCopy(given))

setState ==
    /\ CanCall
    /\ \E given \in RestoredGames :
          LET set == setStateOn(state, given)
          IN  /\ state' = set.game
              /\ call' = [Called("setState", NoRequest, 0, set.thrown, state)
                             EXCEPT !.given = Some(given)]
              /\ held' = IF set.thrown = "" THEN cloneState(state') ELSE NoSnapshot
    /\ calls' = calls + 1
    /\ UNCHANGED <<session, event>>

\* a deal with two calls left: a restore and the call that follows it
InitRestore ==
    /\ \E seed \in Seeds : state = newGameState(seed)
    /\ call = Idle(state)
    /\ calls = MaxCalls - 2
    /\ held = NoSnapshot
    /\ session = NoSession
    /\ event = NoEvent

NextRestore ==
    \/ setState
    \/ Next

SpecRestore == InitRestore /\ [][NextRestore]_vars

\* ---- the view of the game ------------------------------------------------------
\* mutant: the number of foundation piles is not checked
hasWonAnyCount(game) ==
    IF IsUndefined(game) THEN FALSE
    ELSE \A f \in DOMAIN Val(game).foundations : Len(Val(game).foundations[f]) = MaxRank

\* the computed hasWon over game.value, which is null until a game is loaded;
\* a complete pile has 13 cards in the source, MaxRank here
hasWon(game) ==
    IF IsUndefined(game) THEN FALSE
    ELSE IF Len(Val(game).foundations) # 4 THEN FALSE
    ELSE \A f \in DOMAIN Val(game).foundations : Len(Val(game).foundations[f]) = MaxRank

\* ---- the session of the composable ----------------------------------------------
\* useGame() keeps the game the view shows, the selection, the message, the
\* draw mode and the undo stack, and calls the backend. Every operation below
\* is one handler of the composable with the backend call it makes; `call` and
\* `held` record that backend call and the GameState it returned, which is the
\* object the composable stores in `game`. saveToStorage only writes the
\* browser's storage and is left out.

\* a Selection: {kind: "waste"}, {kind: "foundation", index},
\* {kind: "tableau", index, cardIndex}
Selected(kind, index, cardIndex) == [kind |-> kind, index |-> index, cardIndex |-> cardIndex]

\* the fromRef that performMove builds from a Selection
fromRef(from) ==
    [kind |-> from.kind,
     index |-> from.index,
     card_index |-> IF from.kind = "tableau" THEN from.cardIndex ELSE Undefined]

canUndo(refs) == Len(refs.undoStack) > 0

\* null without a game, else a JSON copy of the game shown
snapshotState(refs) ==
    IF IsUndefined(refs.game) THEN Undefined ELSE Some(JsonCopy(Val(refs.game)))

\* mutant: a full stack drops the snapshot that is pushed, not the oldest
pushUndoDropsNewest(undoStack, snapshot) ==
    IF IsUndefined(snapshot) THEN undoStack
    ELSE IF Len(undoStack) >= UndoCap THEN undoStack
    ELSE Append(undoStack, Val(snapshot))

\* push, then shift while the stack is longer than the cap (200 in the source)
pushUndo(undoStack, snapshot) ==
    IF IsUndefined(snapshot) THEN undoStack
    ELSE LET pushed == Append(undoStack, Val(snapshot))
         IN  IF Len(pushed) > UndoCap THEN Tail(pushed) ELSE pushed

\* dragSource and dragOverTarget are not modelled
resetTransientState(refs) == [refs EXCEPT !.selection = Undefined, !.message = ""]

\* an operation of the composable may start
SessionCan == CanCall /\ event.op = "none"

\* the operation that has just run, with the refs it started from
Ran(name) == [op |-> name, before |-> session]

\* mutant: the undo stack is kept over the new deal
useGameNewGameKeepsUndo ==
    /\ SessionCan
    /\ \E seed \in Seeds : state' = newGameState(seed)
    /\ call' = Called("newGame", NoRequest, 0, "", state)
    /\ held' = cloneState(state')
    /\ session' = [resetTransientState(session) EXCEPT
                      !.game = held'.value,
                      !.drawMode = state'.draw_count]
    /\ event' = Ran("newGame")
    /\ calls' = calls + 1

\* the composable's newGame (the backend's is newGameBackend there)
useGameNewGame ==
    /\ SessionCan
    /\ \E seed \in Seeds : state' = newGameState(seed)
    /\ call' = Called("newGame", NoRequest, 0, "", state)
    /\ held' = cloneState(state')
    /\ session' = [resetTransientState(session) EXCEPT
                      !.undoStack = <<>>,
                      !.game = held'.value,
                      !.drawMode = state'.draw_count]
    /\ event' = Ran("newGame")
    /\ calls' = calls + 1

drawCard ==
    /\ SessionCan
    /\ ~IsUndefined(session.game)
    /\ state' = drawInternal(state)
    /\ call' = Called("draw", NoRequest, 0, "", state)
    /\ held' = cloneState(state')
    /\ session' = [resetTransientState(session) EXCEPT
                      !.game = held'.value,
                      !.undoStack = pushUndo(@, snapshotState(session))]
    /\ event' = Ran("drawCard")
    /\ calls' = calls + 1

\* mutant: the selection is cleared before the backend is called
performMoveClearsFirst(from, toKind, toIndex) ==
    /\ ~IsUndefined(session.game)
    /\ LET request == [from |-> fromRef(from),
                       to |-> [kind |-> toKind, index |-> Some(toIndex),
                               card_index |-> Undefined]]
           moved == applyMove(state, request)
       IN  /\ state' = moved.game
           /\ call' = Called("moveCards", request, 0, moved.thrown, state)
           /\ held' = IF moved.thrown = "" THEN cloneState(state') ELSE NoSnapshot
           /\ session' =
                 IF moved.thrown = ""
                 THEN [session EXCEPT !.message = "",
                                      !.game = held'.value,
                                      !.selection = Undefined,
                                      !.undoStack = pushUndo(@, snapshotState(session))]
                 ELSE [session EXCEPT !.message = moved.thrown, !.selection = Undefined]
    /\ event' = Ran("performMove")
    /\ calls' = calls + 1

\* mutant: an accepted move leaves the selection as it was
performMoveKeepsSelection(from, toKind, toIndex) ==
    /\ ~IsUndefined(session.game)
    /\ LET request == [from |-> fromRef(from),
                       to |-> [kind |-> toKind, index |-> Some(toIndex),
                               card_index |-> Undefined]]
           moved == applyMove(state, request)
       IN  /\ state' = moved.game
           /\ call' = Called("moveCards", request, 0, moved.thrown, state)
           /\ held' = IF moved.thrown = "" THEN cloneState(state') ELSE NoSnapshot
           /\ session' =
                 IF moved.thrown = ""
                 THEN [session EXCEPT !.message = "",
                                      !.game = held'.value,
                                      !.undoStack = pushUndo(@, snapshotState(session))]
                 ELSE [session EXCEPT !.message = moved.thrown]
    /\ event' = Ran("performMove")
    /\ calls' = calls + 1

\* the try block runs to its end when moveCardsBackend returns; when it throws,
\* only the catch block runs after the message was cleared
performMove(from, toKind, toIndex) ==
    /\ ~IsUndefined(session.game)
    /\ LET request == [from |-> fromRef(from),
                       to |-> [kind |-> toKind, index |-> Some(toIndex),
                               card_index |-> Undefined]]
           moved == applyMove(state, request)
       IN  /\ state' = moved.game
           /\ call' = Called("moveCards", request, 0, moved.thrown, state)
           /\ held' = IF moved.thrown = "" THEN cloneState(state') ELSE NoSnapshot
           /\ session' =
                 IF moved.thrown = ""
                 THEN [session EXCEPT !.message = "",
                                      !.game = held'.value,
                                      !.selection = Undefined,
                                      !.undoStack = pushUndo(@, snapshotState(session))]
                 ELSE [session EXCEPT !.message = moved.thrown]
    /\ event' = Ran("performMove")
    /\ calls' = calls + 1

\* the view offers the foundations and the tableau piles of the game it shows
moveToFoundation ==
    /\ SessionCan
    /\ ~IsUndefined(session.selection)
    /\ \E index \in 0..3 : performMove(Val(session.selection), "foundation", index)

moveToTableau ==
    /\ SessionCan
    /\ ~IsUndefined(session.selection)
    /\ \E index \in 0..(NumPiles - 1) : performMove(Val(session.selection), "tableau", index)

\* the refs change and the backend is not called
Only(refs) ==
    /\ session' = refs
    /\ UNCHANGED <<state, call, calls, held, event>>

selectWaste ==
    /\ SessionCan
    /\ ~IsUndefined(session.game)
    /\ Len(Val(session.game).waste) # 0
    /\ Only([session EXCEPT !.selection = Some(Selected("waste", Undefined, Undefined))])

\* with a selection the click is a move to the foundation, unless that
\* foundation is the selection; without one it selects the top card
handleFoundationClick ==
    /\ SessionCan
    /\ ~IsUndefined(session.game)
    /\ \E index \in 0..(Len(Val(session.game).foundations) - 1) :
          IF ~IsUndefined(session.selection)
          THEN /\ ~(Val(session.selection).kind = "foundation"
                    /\ Val(session.selection).index = Some(index))
               /\ performMove(Val(session.selection), "foundation", index)
          ELSE /\ Len(Val(session.game).foundations[index + 1]) # 0
               /\ Only([session EXCEPT
                           !.selection = Some(Selected("foundation", Some(index), Undefined))])

\* the click on a face-up card: a move to its pile with a selection, unless the
\* card is the selection; without one it selects the card
handleTableauCardClick ==
    /\ SessionCan
    /\ ~IsUndefined(session.game)
    /\ \E pileIndex \in 0..(Len(Val(session.game).tableau) - 1) :
          \E cardIndex \in 0..(Len(Val(session.game).tableau[pileIndex + 1]) - 1) :
             /\ Val(session.game).tableau[pileIndex + 1][cardIndex + 1].face_up
             /\ IF ~IsUndefined(session.selection)
                THEN /\ Val(session.selection) #
                            Selected("tableau", Some(pileIndex), Some(cardIndex))
                     /\ performMove(Val(session.selection), "tableau", pileIndex)
                ELSE Only([session EXCEPT
                              !.selection =
                                  Some(Selected("tableau", Some(pileIndex), Some(cardIndex)))])

\* mutant: the backend is told the mode and drawMode is left as it was
setDrawModeForgetsMode ==
    /\ SessionCan
    /\ \E mode \in {1, 3} :
          LET set == setDrawCountOn(state, mode)
          IN  /\ state' = set.game
              /\ call' = Called("setDrawCount", NoRequest, mode, set.thrown, state)
              /\ held' = cloneState(state')
              /\ session' = [session EXCEPT
                                !.game = held'.value,
                                !.undoStack = pushUndo(@, snapshotState(session))]
    /\ event' = Ran("setDrawMode")
    /\ calls' = calls + 1

\* the view offers the two modes
setDrawMode ==
    /\ SessionCan
    /\ \E mode \in {1, 3} :
          LET set == setDrawCountOn(state, mode)
          IN  /\ state' = set.game
              /\ call' = Called("setDrawCount", NoRequest, mode, set.thrown, state)
              /\ held' = cloneState(state')
              /\ session' = [session EXCEPT
                                !.drawMode = mode,
                                !.game = held'.value,
                                !.undoStack = pushUndo(@, snapshotState(session))]
    /\ event' = Ran("setDrawMode")
    /\ calls' = calls + 1

\* mutant: the snapshot is restored and stays on the stack
undoKeepsEntry ==
    /\ SessionCan
    /\ IF session.undoStack = <<>>
       THEN UNCHANGED <<state, call, held, session>>
       ELSE LET previous == Top(session.undoStack)
                set == setStateOn(state, previous)
            IN  /\ state' = set.game
                /\ call' = [Called("setState", NoRequest, 0, set.thrown, state)
                               EXCEPT !.given = Some(previous)]
                /\ held' = cloneState(state')
                /\ session' = [resetTransientState(session) EXCEPT
                                  !.game = held'.value,
                                  !.drawMode = state'.draw_count]
    /\ event' = Ran("undo")
    /\ calls' = calls + 1

\* pop, return when there was nothing to pop, else hand the snapshot to setState
undo ==
    /\ SessionCan
    /\ IF session.undoStack = <<>>
       THEN UNCHANGED <<state, call, held, session>>
       ELSE LET previous == Top(session.undoStack)
                set == setStateOn(state, previous)
            IN  /\ state' = set.game
                /\ call' = [Called("setState", NoRequest, 0, set.thrown, state)
                               EXCEPT !.given = Some(previous)]
                /\ held' = cloneState(state')
                /\ session' = [resetTransientState(session) EXCEPT
                                  !.undoStack = Pop(@),
                                  !.game = held'.value,
                                  !.drawMode = state'.draw_count]
    /\ event' = Ran("undo")
    /\ calls' = calls + 1

\* the suit the view shows on each empty foundation, from ./constants
suitOrder == <<"hearts", "clubs", "diamonds", "spades">>

\* the drag sources the drag-start handlers set for `game`: the waste when it
\* has a top card, a face-up card of a tableau pile
DragSources(game) ==
    (IF Len(game.waste) # 0 THEN {Selected("waste", Undefined, Undefined)} ELSE {})
    \cup UNION {{Selected("tableau", Some(p - 1), Some(c - 1)) :
                    c \in {d \in DOMAIN game.tableau[p] : game.tableau[p][d].face_up}} :
                   p \in DOMAIN game.tableau}

\* the card under the pointer: the top of the waste or of the foundation, the
\* card at cardIndex of the tableau pile; null when there is none
getDraggingCard(game, dragSource) ==
    IF IsUndefined(dragSource) \/ IsUndefined(game) THEN Undefined
    ELSE LET source == Val(dragSource)
             shown == Val(game)
         IN  IF source.kind = "waste"
             THEN IF Len(shown.waste) # 0 THEN Some(Top(shown.waste)) ELSE Undefined
             ELSE IF source.kind = "foundation"
             THEN IF HasIndex(shown.foundations, Val(source.index))
                     /\ Len(shown.foundations[Val(source.index) + 1]) # 0
                  THEN Some(Top(shown.foundations[Val(source.index) + 1]))
                  ELSE Undefined
             ELSE IF ~HasIndex(shown.tableau, Val(source.index)) THEN Undefined
             ELSE LET pile == shown.tableau[Val(source.index) + 1]
                  IN  IF HasIndex(pile, Val(source.cardIndex))
                      THEN Some(pile[Val(source.cardIndex) + 1].card)
                      ELSE Undefined

\* the test onFoundationDragEnter and onFoundationDragOver make before a drop
\* on foundation `index` is let through
canDropOnFoundation(game, dragSource, index) ==
    IF IsUndefined(game) THEN FALSE
    ELSE LET card == getDraggingCard(game, dragSource)
         IN  IF IsUndefined(card) THEN FALSE
             ELSE IF ~HasIndex(Val(game).foundations, index) THEN FALSE
             ELSE LET pile == Val(game).foundations[index + 1]
                  IN  IF Len(pile) # 0
                      THEN Top(pile).suit = Val(card).suit
                           /\ Val(card).rank = Top(pile).rank + 1
                      ELSE Val(card).rank = 1 /\ suitOrder[index + 1] = Val(card).suit

\* the finished game simulateWin hands to setState: every foundation complete
\* (13 cards in the source) in the suits of suitOrder, ids -1, the draw mode of
\* the session
WinOf(refs) ==
    [stock |-> <<>>,
     waste |-> <<>>,
     foundations |->
        [f \in 1..Len(suitOrder) |->
            [rank \in 1..MaxRank |-> [id |-> -1, suit |-> suitOrder[f], rank |-> rank]]],
     tableau |-> [p \in 1..NumPiles |-> <<>>],
     draw_count |-> refs.drawMode]

simulateWin ==
    /\ SessionCan
    /\ LET next == WinOf(session)
           set == setStateOn(state, next)
       IN  /\ state' = set.game
           /\ call' = [Called("setState", NoRequest, 0, set.thrown, state)
                          EXCEPT !.given = Some(next)]
           /\ held' = cloneState(state')
           /\ session' = [resetTransientState(session) EXCEPT
                             !.game = held'.value,
                             !.undoStack = <<>>]
    /\ event' = Ran("simulateWin")
    /\ calls' = calls + 1

\* the handler has returned and the view shows the refs
Settle ==
    /\ event.op # "none"
    /\ event' = NoEvent
    /\ call' = Idle(state)
    /\ held' = NoSnapshot
    /\ UNCHANGED <<state, calls, session>>

\* onMounted with nothing stored: newGame(), with SessionCalls operations left
InitSession ==
    /\ \E seed \in Seeds : state = newGameState(seed)
    /\ call = Idle(state)
    /\ calls = MaxCalls - SessionCalls
    /\ held = NoSnapshot
    /\ session = [NoSession EXCEPT !.game = Some(JsonCopy(state)),
                                   !.drawMode = state.draw_count]
    /\ event = NoEvent

NextSession ==
    \/ useGameNewGame
    \/ drawCard
    \/ selectWaste
    \/ handleFoundationClick
    \/ handleTableauCardClick
    \/ moveToFoundation
    \/ moveToTableau
    \/ setDrawMode
    \/ undo
    \/ simulateWin
    \/ Settle

SpecSession == InitSession /\ [][NextSession]_vars

\* ---- properties ------------------------------------------------------------
\* number of cards in a list of piles
RECURSIVE CountIn(_)
CountIn(piles) ==
    IF piles = <<>> THEN 0 ELSE Len(Head(piles)) + CountIn(Tail(piles))

\* number of cards a game holds, pile by pile
CardCount(game) ==
    Len(game.stock) + Len(game.waste) + CountIn(game.foundations) + CountIn(game.tableau)

\* the ids of the cards of a game
IdsOf(game) ==
    {game.stock[i].id : i \in DOMAIN game.stock}
    \cup {game.waste[i].id : i \in DOMAIN game.waste}
    \cup UNION {{game.foundations[f][i].id : i \in DOMAIN game.foundations[f]} :
                   f \in DOMAIN game.foundations}
    \cup UNION {{game.tableau[p][i].card.id : i \in DOMAIN game.tableau[p]} :
                   p \in DOMAIN game.tableau}

\* the card is the card of the deck that has its id
OfDeck(card) == card.id \in 0..(DeckSize - 1) /\ card = NewDeck[card.id + 1]

Accepted(name) == call.op = name /\ call.thrown = ""
Rejected(name) == call.op = name /\ call.thrown # ""

\* the cards a PileRef offers as the source of a move of `game`: the top of the
\* waste, the top of a foundation, the cards of a tableau pile from card_index on;
\* none when the reference names no such card
Offered(game, from) ==
    IF from.kind = "waste"
    THEN IF game.waste = <<>> THEN <<>> ELSE <<game.waste[Len(game.waste)]>>
    ELSE IF from.kind = "foundation"
    THEN IF from.index = {} \/ \A n \in from.index : n \notin 0..(Len(game.foundations) - 1)
         THEN <<>>
         ELSE LET pile == game.foundations[Val(from.index) + 1]
              IN  IF pile = <<>> THEN <<>> ELSE <<pile[Len(pile)]>>
    ELSE IF from.kind = "tableau"
    THEN IF \/ from.index = {}
            \/ from.card_index = {}
            \/ \A n \in from.index : n \notin 0..(Len(game.tableau) - 1)
         THEN <<>>
         ELSE LET pile == game.tableau[Val(from.index) + 1]
                  first == Val(from.card_index)
              IN  IF first \notin 0..(Len(pile) - 1)
                  THEN <<>>
                  ELSE [i \in 1..(Len(pile) - first) |-> pile[first + i].card]
    ELSE <<>>

\* C1: the stock, the waste, the foundations and the tableau piles together hold
\* every card of the deck exactly once, in every state reachable by newGame,
\* draw, moveCards (accepted or rejected) and setDrawCount: as many cards as the
\* deck has, every id of the deck among them, each on the card the deck gave it.
C1_Conservation ==
    /\ CardCount(state) = DeckSize
    /\ IdsOf(state) = 0..(DeckSize - 1)
    /\ \A i \in DOMAIN state.stock : OfDeck(state.stock[i])
    /\ \A i \in DOMAIN state.waste : OfDeck(state.waste[i])
    /\ \A f \in DOMAIN state.foundations :
          \A i \in DOMAIN state.foundations[f] : OfDeck(state.foundations[f][i])
    /\ \A p \in DOMAIN state.tableau :
          \A i \in DOMAIN state.tableau[p] : OfDeck(state.tableau[p][i].card)

\* C1 witness: an accepted move has carried a run of two or more cards from one
\* tableau pile to another.
C1_Witness ==
    /\ Accepted("moveCards")
    /\ call.request.from.kind = "tableau"
    /\ call.request.to.kind = "tableau"
    /\ Len(Offered(call.before, call.request.from)) >= 2

\* C2: a moveCards that is rejected, for whatever reason, leaves the engine state
\* equal to the state before the call: every pile, every face-up flag, the draw count.
C2_MoveAtomicity == Rejected("moveCards") => state = call.before

\* C2 witness: a move of a valid run was rejected by the tableau placement rule.
C2_Witness ==
    /\ Rejected("moveCards")
    /\ call.thrown = "Card cannot be placed on tableau"
    /\ Len(Offered(call.before, call.request.from)) >= 1

\* a pile that is Ace, 2, ..., k of one suit
BuiltUp(pile) ==
    \A i \in 1..Len(pile) : pile[i].rank = i /\ pile[i].suit = pile[1].suit

\* the foundation rule as the specification words it
FoundationTakes(pile, card) ==
    \/ pile = <<>> /\ card.rank = 1
    \/ pile # <<>> /\ pile[Len(pile)].suit = card.suit
                  /\ card.rank = pile[Len(pile)].rank + 1

\* the last call named foundation number `index` of the game as its destination
ToFoundation(index) ==
    /\ call.op = "moveCards"
    /\ call.request.to.kind = "foundation"
    /\ call.request.to.index = {index}

\* C3: every foundation is Ace, 2, ..., k of a single suit; and a moveCards onto
\* a foundation is rejected whenever the moving card is neither an Ace on an empty
\* foundation nor the same suit with rank top + 1 on a non-empty one.
C3_FoundationBuildOrder ==
    /\ \A f \in DOMAIN state.foundations : BuiltUp(state.foundations[f])
    /\ \A f \in DOMAIN call.before.foundations :
          LET offered == Offered(call.before, call.request.from)
          IN  (/\ ToFoundation(f - 1)
               /\ Len(offered) = 1
               /\ ~FoundationTakes(call.before.foundations[f], offered[1]))
              => call.thrown # ""

\* C3 witness: a foundation already holds Ace and 2, and a card that does not
\* continue a foundation has just been refused there.
C3_Witness ==
    /\ \E f \in DOMAIN state.foundations : Len(state.foundations[f]) >= 2
    /\ \E f \in DOMAIN call.before.foundations :
          /\ ToFoundation(f - 1)
          /\ call.before.foundations[f] # <<>>
          /\ Len(Offered(call.before, call.request.from)) = 1
          /\ call.thrown = "Card cannot be placed on foundation"

\* the piles and the mode a draw must not touch
DrawFrame == 
    /\ state.foundations = call.before.foundations
    /\ state.tableau = call.before.tableau
    /\ state.draw_count = call.before.draw_count

\* C6: draw() on a non-empty stock with draw_count 1 or 3 takes exactly
\* min(draw_count, stock.length) cards from the end of the stock and appends them
\* to the waste in the order drawn (the last card drawn is the new waste top);
\* foundations, tableau and draw_count are unchanged.
C6_DrawFromStock ==
    (/\ call.op = "draw"
     /\ call.before.stock # <<>>
     /\ call.before.draw_count \in {1, 3})
    => LET old == call.before
           n == IF old.draw_count < Len(old.stock) THEN old.draw_count ELSE Len(old.stock)
       IN  /\ call.thrown = ""
           /\ Len(state.stock) = Len(old.stock) - n
           /\ \A i \in 1..Len(state.stock) : state.stock[i] = old.stock[i]
           /\ Len(state.waste) = Len(old.waste) + n
           /\ \A i \in 1..Len(old.waste) : state.waste[i] = old.waste[i]
           /\ \A k \in 1..n : state.waste[Len(old.waste) + k] = old.stock[Len(old.stock) - k + 1]
           /\ DrawFrame

\* C6 witness: a draw in draw-3 mode found only two cards in the stock, with
\* cards already in the waste.
C6_Witness ==
    /\ call.op = "draw"
    /\ call.before.draw_count = 3
    /\ Len(call.before.stock) = 2
    /\ call.before.waste # <<>>

\* C7: draw() on an empty stock and a non-empty waste moves the whole waste to
\* the stock in reversed order (the former bottom of the waste is the top of the
\* stock), leaves the waste empty and draws no card in that call.
C7_Recycle ==
    (/\ call.op = "draw"
     /\ call.before.stock = <<>>
     /\ call.before.waste # <<>>)
    => /\ call.thrown = ""
       /\ state.waste = <<>>
       /\ Len(state.stock) = Len(call.before.waste)
       /\ \A i \in 1..Len(state.stock) :
             state.stock[i] = call.before.waste[Len(call.before.waste) - i + 1]
       /\ DrawFrame

\* C7 witness: a draw has recycled a waste of three or more cards.
C7_Witness ==
    /\ call.op = "draw"
    /\ call.before.stock = <<>>
    /\ Len(call.before.waste) >= 3
    /\ state.waste = <<>>

\* the tableau cards a tableau PileRef selects: the pile from card_index on
Suffix(game, from) ==
    LET pile == game.tableau[Val(from.index) + 1]
        first == Val(from.card_index)
    IN  [i \in 1..(Len(pile) - first) |-> pile[first + i]]

\* the reference names an existing card of an existing tableau pile
InRange(game, from) ==
    /\ from.kind = "tableau"
    /\ from.index # {} /\ from.card_index # {}
    /\ \E p \in 0..(Len(game.tableau) - 1) : from.index = {p}
    /\ \E c \in 0..(Len(game.tableau[Val(from.index) + 1]) - 1) : from.card_index = {c}

Red(card) == card.suit \in {"hearts", "diamonds"}

\* every adjacent pair descends by one rank and changes colour
Alternating(cards) ==
    \A i \in 1..(Len(cards) - 1) :
        /\ cards[i].card.rank = cards[i + 1].card.rank + 1
        /\ Red(cards[i].card) # Red(cards[i + 1].card)

AllFaceUp(cards) == \A i \in 1..Len(cards) : cards[i].face_up

\* the tableau rule as the specification words it (the King is the highest rank)
TableauTakes(pile, lead) ==
    \/ pile = <<>> /\ lead.rank = MaxRank
    \/ /\ pile # <<>>
       /\ pile[Len(pile)].face_up
       /\ Red(pile[Len(pile)].card) # Red(lead)
       /\ pile[Len(pile)].card.rank = lead.rank + 1

\* the last call named tableau pile number `index` as its destination
ToTableau(index) ==
    /\ call.op = "moveCards"
    /\ call.request.to.kind = "tableau"
    /\ call.request.to.index = {index}

\* C4: a moveCards whose source is the suffix of a tableau pile from an in-range
\* card_index, all of it face-up, and whose destination is another tableau pile
\* that accepts the first card of the suffix, is accepted if and only if every
\* adjacent pair of the suffix descends by one rank and changes colour; a suffix
\* with a face-down card or a bad pair is rejected wherever it is sent.
C4_TableauRunLegality ==
    (call.op = "moveCards" /\ InRange(call.before, call.request.from))
    => LET suffix == Suffix(call.before, call.request.from)
       IN  /\ \A q \in DOMAIN call.before.tableau :
                 (/\ ToTableau(q - 1)
                  /\ call.request.from.index # {q - 1}
                  /\ AllFaceUp(suffix)
                  /\ TableauTakes(call.before.tableau[q], suffix[1].card))
                 => (call.thrown = "" <=> Alternating(suffix))
           /\ (~AllFaceUp(suffix) \/ ~Alternating(suffix)) => call.thrown # ""

\* C4 witness: a face-up pair that descends by one rank but keeps the colour was
\* refused by another pile that accepts its first card.
C4_Witness ==
    /\ Rejected("moveCards")
    /\ InRange(call.before, call.request.from)
    /\ LET suffix == Suffix(call.before, call.request.from)
       IN  /\ Len(suffix) = 2
           /\ AllFaceUp(suffix)
           /\ suffix[1].card.rank = suffix[2].card.rank + 1
           /\ Red(suffix[1].card) = Red(suffix[2].card)
           /\ \E q \in DOMAIN call.before.tableau :
                 /\ ToTableau(q - 1)
                 /\ call.request.from.index # {q - 1}
                 /\ TableauTakes(call.before.tableau[q], suffix[1].card)

\* the source of the last call is a valid run: the top of the waste or of a
\* foundation, or a face-up alternating suffix of a tableau pile
ValidSource ==
    /\ Offered(call.before, call.request.from) # <<>>
    /\ call.request.from.kind = "tableau"
       => /\ AllFaceUp(Suffix(call.before, call.request.from))
          /\ Alternating(Suffix(call.before, call.request.from))

\* C5: a moveCards with a valid source run and a tableau destination other than
\* the source pile is accepted exactly when the destination is empty and the run
\* starts with a King, or the destination's top card is face-up, of the other
\* colour and one rank above the first card of the run.
C5_TableauDestination ==
    \A q \in DOMAIN call.before.tableau :
        (/\ ToTableau(q - 1)
         /\ ValidSource
         /\ ~(call.request.from.kind = "tableau" /\ call.request.from.index = {q - 1}))
        => (call.thrown = ""
            <=> TableauTakes(call.before.tableau[q],
                             Offered(call.before, call.request.from)[1]))

\* C5 witness: a card was refused on a pile whose top card has the right rank
\* and colour but lies face-down.
C5_Witness ==
    \E q \in DOMAIN call.before.tableau :
        /\ ToTableau(q - 1)
        /\ ValidSource
        /\ call.request.from.index # {q - 1}
        /\ call.thrown # ""
        /\ call.before.tableau[q] # <<>>
        /\ LET top == call.before.tableau[q][Len(call.before.tableau[q])]
               lead == Offered(call.before, call.request.from)[1]
           IN  /\ ~top.face_up
               /\ top.card.rank = lead.rank + 1
               /\ Red(top.card) # Red(lead)

\* C8: draw() with the stock and the waste both empty leaves the engine state as
\* it was, so that the next draw() meets the same state again.
C8_DrawOnEmpty ==
    (/\ call.op = "draw"
     /\ call.before.stock = <<>>
     /\ call.before.waste = <<>>)
    => call.thrown = "" /\ state = call.before

\* C8 witness: draw() has been called with the stock and the waste empty and
\* cards on the tableau.
C8_Witness ==
    /\ call.op = "draw"
    /\ call.before.stock = <<>>
    /\ call.before.waste = <<>>
    /\ \E p \in DOMAIN state.tableau : state.tableau[p] # <<>>

\* number of cards the deal leaves in the stock (24 in the source)
StockDealt == DeckSize - (NumPiles * (NumPiles + 1)) \div 2

\* C9: the state newGame() produces, whatever the state before and whatever the
\* shuffle, has tableau pile i (counted from 0) holding i + 1 cards with only the
\* last face-up, the remaining cards in the stock, an empty waste, four empty
\* foundations and draw_count 3; it is the engine's current state.
C9_DealShape ==
    (call.op = "newGame" \/ calls = 0)
    => /\ Len(state.tableau) = NumPiles
       /\ \A p \in 1..Len(state.tableau) :
             /\ Len(state.tableau[p]) = p
             /\ \A i \in 1..p : state.tableau[p][i].face_up <=> (i = p)
       /\ Len(state.stock) = StockDealt
       /\ state.waste = <<>>
       /\ state.foundations = << <<>>, <<>>, <<>>, <<>> >>
       /\ state.draw_count = 3

\* C9 witness: newGame() has replaced a game in draw-1 mode that had cards in the
\* waste and on a foundation.
C9_Witness ==
    /\ call.op = "newGame"
    /\ call.before.draw_count = 1
    /\ call.before.waste # <<>>
    /\ \E f \in DOMAIN call.before.foundations : call.before.foundations[f] # <<>>

\* C10: setDrawCount(n) is rejected for every n other than 1 and 3 and then
\* leaves the whole state unchanged; for n in {1, 3} it sets draw_count to n and
\* leaves stock, waste, foundations and tableau as they were.
C10_SetDrawCount ==
    call.op = "setDrawCount"
    => IF call.drawCount \in {1, 3}
       THEN /\ call.thrown = ""
            /\ state.draw_count = call.drawCount
            /\ state.stock = call.before.stock
            /\ state.waste = call.before.waste
            /\ state.foundations = call.before.foundations
            /\ state.tableau = call.before.tableau
       ELSE /\ call.thrown # ""
            /\ state = call.before

\* C10 witness: setDrawCount(2) has been refused in a game with cards in the waste.
C10_Witness ==
    /\ Rejected("setDrawCount")
    /\ call.drawCount = 2
    /\ call.before.waste # <<>>

\* the pile a card lies in: the kind of the pile and its index
PlaceOf(game, id) ==
    IF \E i \in DOMAIN game.stock : game.stock[i].id = id THEN <<"stock", 0>>
    ELSE IF \E i \in DOMAIN game.waste : game.waste[i].id = id THEN <<"waste", 0>>
    ELSE IF \E f \in DOMAIN game.foundations :
               \E i \in DOMAIN game.foundations[f] : game.foundations[f][i].id = id
    THEN <<"foundation",
           CHOOSE f \in DOMAIN game.foundations :
               \E i \in DOMAIN game.foundations[f] : game.foundations[f][i].id = id>>
    ELSE IF \E p \in DOMAIN game.tableau :
               \E i \in DOMAIN game.tableau[p] : game.tableau[p][i].card.id = id
    THEN <<"tableau",
           CHOOSE p \in DOMAIN game.tableau :
               \E i \in DOMAIN game.tableau[p] : game.tableau[p][i].card.id = id>>
    ELSE <<"nowhere", 0>>

\* the cards that the last call moved from one pile to another
Moved == {id \in 0..(DeckSize - 1) : PlaceOf(state, id) # PlaceOf(call.before, id)}

\* setDrawCount(1) is accepted and leaves the engine in draw-1 mode, in which the
\* next draw() finds it
SetsDrawOne ==
    (call.op = "setDrawCount" /\ call.drawCount = 1)
    => call.thrown = "" /\ state.draw_count = 1

\* C11 as stated: in draw-1 mode a draw() moves exactly one card when the stock
\* is non-empty and moves no card at all when the stock is empty.
C11_MovesOneOrNone ==
    /\ SetsDrawOne
    /\ (call.op = "draw" /\ call.before.draw_count = 1)
       => Cardinality(Moved) = (IF call.before.stock # <<>> THEN 1 ELSE 0)

\* C11, amended: after setDrawCount(1), a draw() on a non-empty stock moves
\* exactly one card, the top of the stock, onto the waste; on an empty stock it
\* puts no card on the waste: the waste is recycled, every card of it moving to
\* the stock, and when the waste is empty too no card moves.
C11_DrawOne ==
    /\ SetsDrawOne
    /\ (call.op = "draw" /\ call.before.draw_count = 1)
       => /\ call.thrown = ""
          /\ IF call.before.stock # <<>>
             THEN /\ Cardinality(Moved) = 1
                  /\ state.waste = Append(call.before.waste, Top(call.before.stock))
                  /\ state.stock = Pop(call.before.stock)
             ELSE /\ state.waste = <<>>
                  /\ Cardinality(Moved) = Len(call.before.waste)
                  /\ Len(state.stock) = Len(call.before.waste)
          /\ DrawFrame

\* C11 witness: in draw-1 mode a draw() met an empty stock and a waste of
\* several cards.
C11_Witness ==
    /\ call.op = "draw"
    /\ call.before.draw_count = 1
    /\ call.before.stock = <<>>
    /\ Len(call.before.waste) >= 2

\* the last call was accepted and took its cards from a tableau pile
FromTableau == Accepted("moveCards") /\ call.request.from.kind = "tableau"

\* C12: after an accepted moveCards whose source is a tableau suffix, the source
\* pile keeps the cards below the suffix, and its new top card, if there is one,
\* is face-up; if the source pile became empty no card of any other pile is
\* turned; and an empty pile accepts a move of a valid run that starts with a King.
C12_FlipOnExpose ==
    /\ FromTableau
       => LET p == Val(call.request.from.index) + 1
              first == Val(call.request.from.card_index)
              old == call.before.tableau[p]
              new == state.tableau[p]
          IN  /\ Len(new) = first
              /\ \A i \in 1..first : new[i].card = old[i].card
              /\ \A i \in 1..(first - 1) : new[i].face_up = old[i].face_up
              /\ first > 0 => new[first].face_up
              /\ first = 0 =>
                    \A q \in DOMAIN state.tableau :
                        \A i \in DOMAIN call.before.tableau[q] :
                            q # p => state.tableau[q][i] = call.before.tableau[q][i]
    /\ \A q \in DOMAIN call.before.tableau :
          (/\ ToTableau(q - 1)
           /\ call.before.tableau[q] = <<>>
           /\ ValidSource
           /\ Offered(call.before, call.request.from)[1].rank = MaxRank)
          => /\ call.thrown = ""
             /\ state.tableau[q] =
                   [i \in 1..Len(Offered(call.before, call.request.from)) |->
                       [card |-> Offered(call.before, call.request.from)[i],
                        face_up |-> TRUE]]

\* C12 witness: a King has moved from a tableau pile, where it lay on a face-down
\* card that is now face-up, to a pile that an earlier move had emptied.
C12_Witness ==
    /\ FromTableau
    /\ LET p == Val(call.request.from.index) + 1
           first == Val(call.request.from.card_index)
       IN  /\ first > 0
           /\ ~call.before.tableau[p][first].face_up
           /\ state.tableau[p][first].face_up
    /\ \E q \in DOMAIN call.before.tableau :
          ToTableau(q - 1) /\ call.before.tableau[q] = <<>>

\* C13: hasWon is true exactly when there are four foundations and each holds
\* all the cards of a suit (13; MaxRank here); it is false as soon as any
\* foundation holds fewer, and false while no game is loaded.
C13_WinDetection ==
    /\ hasWon(Some(state))
       <=> /\ Len(state.foundations) = Len(suits)
           /\ \A f \in 1..Len(state.foundations) : Len(state.foundations[f]) = MaxRank
    /\ (\E f \in 1..Len(state.foundations) : Len(state.foundations[f]) < MaxRank)
       => ~hasWon(Some(state))
    /\ ~hasWon(Undefined)

\* C13 witness: the last card has just completed the fourth foundation and the
\* game is won.
C13_Witness ==
    /\ Accepted("moveCards")
    /\ ~hasWon(Some(call.before))
    /\ hasWon(Some(state))

\* the last call named one tableau pile index as its source and its destination
SamePile ==
    /\ call.op = "moveCards"
    /\ call.request.from.kind = "tableau"
    /\ call.request.to.kind = "tableau"
    /\ call.request.from.index = call.request.to.index

\* C14: every moveCards whose source and destination are the same tableau pile
\* index is rejected and leaves the state unchanged, whatever the card_index
\* (missing, negative, in range, past the end), also when the cards that would
\* stay on the pile accept the run.
C14_SamePileRejected ==
    SamePile => call.thrown # "" /\ state = call.before

\* C14 witness: a valid run was sent to its own pile, where the card it lies on
\* (or the empty pile under a King) would take it, and was refused.
C14_Witness ==
    /\ SamePile
    /\ InRange(call.before, call.request.from)
    /\ ValidSource
    /\ LET p == Val(call.request.from.index) + 1
           first == Val(call.request.from.card_index)
       IN  TableauTakes(SubSeq(call.before.tableau[p], 1, first),
                        call.before.tableau[p][first + 1].card)
    /\ call.thrown # ""

\* list is the first cards of whole, in the same order
IsPrefix(list, whole) ==
    Len(list) <= Len(whole) /\ \A i \in 1..Len(list) : list[i] = whole[i]

\* C15: every moveCards with from.kind = stock is rejected, every moveCards with
\* to.kind = stock or to.kind = waste is rejected, and every moveCards that offers
\* more than one card to a foundation is rejected.  So within a game no moveCards
\* and no setDrawCount changes the stock, a moveCards takes at most the top card
\* from the waste and never adds to it, a draw() on a non-empty stock only takes
\* cards from its end, and the stock gains cards only by the recycle of a draw()
\* that found it empty.
C15_StockAndWasteEndpoints ==
    /\ call.op = "moveCards"
       => /\ call.request.from.kind = "stock" => call.thrown # ""
          /\ call.request.to.kind \in {"stock", "waste"} => call.thrown # ""
          /\ (/\ call.request.to.kind = "foundation"
              /\ Len(Offered(call.before, call.request.from)) > 1)
             => call.thrown # ""
          /\ state.stock = call.before.stock
          /\ \/ state.waste = call.before.waste
             \/ /\ call.request.from.kind = "waste"
                /\ call.before.waste # <<>>
                /\ state.waste = Pop(call.before.waste)
    /\ call.op = "setDrawCount" => state.stock = call.before.stock
    /\ call.op = "draw"
       => IF call.before.stock # <<>>
          THEN IsPrefix(state.stock, call.before.stock)
          ELSE state.waste = <<>> /\ Len(state.stock) = Len(call.before.waste)

\* C15 witness: a face-up run of two cards was offered to a foundation and refused.
C15_Witness ==
    /\ Rejected("moveCards")
    /\ call.request.to.kind = "foundation"
    /\ InRange(call.before, call.request.from)
    /\ ValidSource
    /\ Len(Offered(call.before, call.request.from)) = 2
    /\ call.thrown = "Only one card can move to foundation"

\* the last call put exactly `card`, face-up, on top of the pile it names as its
\* destination and left the cards below as they were
LandedOnTop(card) ==
    IF call.request.to.kind = "foundation"
    THEN LET f == Val(call.request.to.index) + 1
         IN  state.foundations[f] = Append(call.before.foundations[f], card)
    ELSE LET p == Val(call.request.to.index) + 1
         IN  /\ call.request.to.kind = "tableau"
             /\ state.tableau[p] =
                   Append(call.before.tableau[p], [card |-> card, face_up |-> TRUE])

\* C16: an accepted moveCards from the waste removes only the top card of the
\* waste, and one from foundation i only the top card of foundation i, and that
\* card becomes the top of the destination; a moveCards from the waste is rejected
\* when the waste is empty, and one from a foundation when the index is missing or
\* outside 0..3 or that foundation is empty.
C16_SingleCardSources ==
    /\ (Accepted("moveCards") /\ call.request.from.kind = "waste")
       => /\ call.before.waste # <<>>
          /\ state.waste = Pop(call.before.waste)
          /\ LandedOnTop(Top(call.before.waste))
          /\ state.stock = call.before.stock
          /\ CardCount(state) = CardCount(call.before)
    /\ (Accepted("moveCards") /\ call.request.from.kind = "foundation")
       => /\ \E i \in 0..3 : call.request.from.index = {i}
          /\ LET f == Val(call.request.from.index) + 1
             IN  /\ call.before.foundations[f] # <<>>
                 /\ state.foundations[f] = Pop(call.before.foundations[f])
                 /\ LandedOnTop(Top(call.before.foundations[f]))
          /\ state.stock = call.before.stock
          /\ state.waste = call.before.waste
          /\ CardCount(state) = CardCount(call.before)
    /\ (call.op = "moveCards" /\ call.request.from.kind = "waste"
        /\ call.before.waste = <<>>)
       => call.thrown # ""
    /\ (call.op = "moveCards" /\ call.request.from.kind = "foundation"
        /\ \/ \A i \in 0..3 : call.request.from.index # {i}
           \/ call.before.foundations[Val(call.request.from.index) + 1] = <<>>)
       => call.thrown # ""

\* C16 witness: the top card of a foundation that holds more than one card has
\* moved back to a tableau pile.
C16_Witness ==
    /\ Accepted("moveCards")
    /\ call.request.from.kind = "foundation"
    /\ call.request.to.kind = "tableau"
    /\ Len(call.before.foundations[Val(call.request.from.index) + 1]) >= 2

\* the reasons applyMove gives when it rejects a request
EngineReasons ==
    {"Waste is empty",
     "Foundation index required",
     "Foundation index out of range",
     "Foundation is empty",
     "Tableau index required",
     "Tableau card index required",
     "Tableau index out of range",
     "Tableau card index out of range",
     "Cannot move face-down cards",
     "Tableau run is invalid",
     "Use draw to move from stock",
     "Cannot move cards onto the same tableau pile",
     "Only one card can move to foundation",
     "Card cannot be placed on foundation",
     "No source for move",
     "No cards to move",
     "Card cannot be placed on tableau",
     "Cannot move cards to that pile"}

\* C17: every moveCards request, whatever its foundation, tableau and card
\* indices (negative, missing, past the end), either returns the new state or
\* fails with one of the engine's own reasons; no other fault reaches the caller.
C17_DescriptiveRejections ==
    call.op = "moveCards" => call.thrown = "" \/ call.thrown \in EngineReasons

\* C17, the fault: a request with a negative card_index passed every check of
\* applyMove and the removal of the run from its pile raised a RangeError.
C17_RangeErrorReached ==
    /\ call.op = "moveCards"
    /\ call.request.from.kind = "tableau"
    /\ \E c \in call.request.from.card_index : c < 0
    /\ call.thrown = "RangeError: Invalid array length"
    /\ state = call.before

\* C18: a state returned by newGame, getState, draw, moveCards or setDrawCount
\* equals the engine's state and is a copy of it: whatever the caller then
\* writes into it (a pile, a card's face-up flag, the draw count), the engine's
\* state stays as it was, so the next getState() returns the state unchanged
\* and later operations start from it.
C18_SnapshotsDoNotAlias ==
    /\ (call.op \in {"newGame", "getState", "draw", "moveCards", "setDrawCount"}
        /\ call.thrown = "")
       => held.value = Some(state)
    /\ call.op = "getState" => state = call.before
    /\ call.op = "scribble"
       => /\ state = call.before
          /\ held.value # Some(state)
          /\ cloneState(state).value = Some(call.before)

\* C18 witness: the caller has turned over a tableau card of the state a call
\* returned after cards had been drawn, and holds a state that differs from the
\* engine's.
C18_Witness ==
    /\ call.op = "scribble"
    /\ state.waste # <<>>
    /\ \E p \in DOMAIN state.tableau :
          /\ state.tableau[p] # <<>>
          /\ Val(held.value).tableau[p] # state.tableau[p]

\* the last call asked to move the top card of a foundation of a won game to an
\* empty tableau pile
KingOffWonFoundation ==
    /\ call.op = "moveCards"
    /\ hasWon(Some(call.before))
    /\ call.request.from.kind = "foundation"
    /\ \E f \in 0..(Len(suits) - 1) : call.request.from.index = {f}
    /\ \E q \in DOMAIN call.before.tableau :
          ToTableau(q - 1) /\ call.before.tableau[q] = <<>>

\* C19: in a won game (four complete foundations) a moveCards that satisfies the
\* ordinary rules, a King from a foundation to an empty tableau pile, is accepted
\* as in any other game: the King lies face-up on the pile, its foundation is one
\* card short and the game is no longer won.
C19_NoLockOnWon ==
    KingOffWonFoundation
    => LET f == Val(call.request.from.index) + 1
           q == Val(call.request.to.index) + 1
       IN  /\ call.thrown = ""
           /\ state.foundations[f] = Pop(call.before.foundations[f])
           /\ state.tableau[q] =
                 <<[card |-> Top(call.before.foundations[f]), face_up |-> TRUE]>>
           /\ ~hasWon(Some(state))

\* C19 witness: a won game has been followed by a game that is not won.
C19_Witness ==
    /\ Accepted("moveCards")
    /\ hasWon(Some(call.before))
    /\ ~hasWon(Some(state))
    /\ KingOffWonFoundation

\* the last call is the call that followed a setState
AfterRestore(name) == call.op = name /\ ~IsUndefined(call.given)

\* C20: setState(s) accepts every structurally valid GameState s, whether or
\* not a game could reach it, and makes it the engine's state; the getState()
\* that follows returns a state equal to s, and the draw() or moveCards that
\* follows does to s what it does to any state.
C20_TrustedRestore ==
    /\ call.op = "setState"
       => /\ call.thrown = ""
          /\ Some(state) = call.given
          /\ held.value = call.given
    /\ AfterRestore("getState")
       => held.value = call.given /\ Some(state) = call.given
    /\ AfterRestore("draw")
       => state = drawInternal(Val(call.given))
    /\ AfterRestore("moveCards")
       => /\ state = applyMove(Val(call.given), call.request).game
          /\ call.thrown = applyMove(Val(call.given), call.request).thrown

\* C20 witness: a game that no play leads to (a face-down card on top of a
\* tableau pile, most of the deck missing) was installed by setState, and the
\* moveCards that followed moved a card of it.
C20_Witness ==
    /\ AfterRestore("moveCards")
    /\ call.thrown = ""
    /\ state # call.before
    /\ \E p \in DOMAIN Val(call.given).tableau :
          /\ Val(call.given).tableau[p] # <<>>
          /\ ~Top(Val(call.given).tableau[p]).face_up

\* the pile a PileRef names is foundation number f (1-based)
IsFoundation(ref, f) == ref.kind = "foundation" /\ ref.index = {f - 1}

\* the pile a PileRef names is tableau pile number p (1-based)
IsTableau(ref, p) == ref.kind = "tableau" /\ ref.index = {p - 1}

\* what is left of a tableau pile when the cards from `first` (0-based) on have
\* gone: the cards below, as they were, the last of them face-up or as it was
LeftBehind(new, old, first) ==
    /\ Len(new) = first
    /\ \A i \in 1..first : new[i].card = old[i].card
    /\ \A i \in 1..(first - 1) : new[i].face_up = old[i].face_up
    /\ first > 0 => (old[first].face_up => new[first].face_up)

\* C21: an accepted moveCards changes only the source pile, which loses its top
\* card or its suffix from card_index with at most its new top turned face-up,
\* and the destination pile, which gets the moved cards appended in their order,
\* face-up on a tableau pile; the stock, every other pile and draw_count are
\* unchanged.
C21_CommitFrame ==
    Accepted("moveCards")
    => LET old == call.before
           from == call.request.from
           to == call.request.to
           moved == Offered(old, from)
       IN  /\ moved # <<>>
           /\ state.stock = old.stock
           /\ state.draw_count = old.draw_count
           /\ state.waste = (IF from.kind = "waste" THEN Pop(old.waste) ELSE old.waste)
           /\ Len(state.foundations) = Len(old.foundations)
           /\ \A f \in DOMAIN old.foundations :
                 state.foundations[f] =
                     (IF IsFoundation(from, f) THEN Pop(old.foundations[f])
                      ELSE old.foundations[f])
                     \o (IF IsFoundation(to, f) THEN moved ELSE <<>>)
           /\ Len(state.tableau) = Len(old.tableau)
           /\ \A p \in DOMAIN old.tableau :
                 LET arrived == IF IsTableau(to, p) THEN Len(moved) ELSE 0
                     kept == Len(state.tableau[p]) - arrived
                 IN  /\ kept >= 0
                     /\ IF IsTableau(from, p)
                        THEN LeftBehind(SubSeq(state.tableau[p], 1, kept), old.tableau[p],
                                        Val(from.card_index))
                        ELSE SubSeq(state.tableau[p], 1, kept) = old.tableau[p]
                     /\ \A i \in 1..arrived :
                           state.tableau[p][kept + i] = [card |-> moved[i], face_up |-> TRUE]

\* C21 witness: a run of two cards has moved from a tableau pile, where a
\* face-down card lay under it, to another tableau pile, while the waste and a
\* foundation held cards.
C21_Witness ==
    /\ Accepted("moveCards")
    /\ call.request.from.kind = "tableau"
    /\ call.request.to.kind = "tableau"
    /\ Len(Offered(call.before, call.request.from)) = 2
    /\ \E c \in call.request.from.card_index :
          c > 0 /\ ~call.before.tableau[Val(call.request.from.index) + 1][c].face_up
    /\ state.waste # <<>>
    /\ \E f \in DOMAIN state.foundations : state.foundations[f] # <<>>

\* draw() repeated on `game` until its stock is empty
RECURSIVE DrawOut(_)
DrawOut(game) ==
    IF Len(game.stock) = 0 THEN game ELSE DrawOut(drawInternal(game))

\* one cycle through the stock: draw() until the stock is empty, then once more
DrawCycle(game) == drawInternal(DrawOut(game))

\* C22: from a state with an empty waste, in draw-1 and in draw-3 mode, draw()
\* repeated until the stock is empty and called once more gives the state back:
\* an empty waste and the stock with the same cards in the same order, so that
\* no number of cycles loses or duplicates a card.
C22_DrawCycleRoundTrip ==
    state.waste = <<>>
    => \A drawCount \in {1, 3} :
          LET start == setDrawCountOn(state, drawCount).game
          IN  /\ DrawOut(start).stock = <<>>
              /\ Len(DrawOut(start).waste) = Len(state.stock)
              /\ DrawCycle(start) = start
              /\ DrawCycle(DrawCycle(start)) = start

\* C22 witness: a draw() has recycled the waste into a stock that is one card
\* short of the dealt one, in draw-3 mode, so that the last draw of the next
\* cycle takes fewer than three cards.
C22_Witness ==
    /\ call.op = "draw"
    /\ call.before.stock = <<>>
    /\ state.waste = <<>>
    /\ state.draw_count = 3
    /\ Len(state.stock) = StockDealt - 1

\* C28: newGame() keeps a draw count that was set: the state it produces has the
\* draw_count of the state before, which is 1 after setDrawCount(1) and is 3
\* when no draw count was set since the deal.
C28_NewGameKeepsDrawCount ==
    call.op = "newGame" => state.draw_count = call.before.draw_count

\* C28, as the code has it: newGame() after setDrawCount(1) gave draw_count 3.
C28_DrawCountReset ==
    /\ call.op = "newGame"
    /\ call.before.draw_count = 1
    /\ state.draw_count = 3

\* the face-up cards of a tableau pile, in the order of the pile
FaceUpCards(pile) == SelectSeq(pile, LAMBDA entry : entry.face_up)

\* no face-up card of the pile lies under a face-down one
DownThenUp(pile) ==
    \A i \in DOMAIN pile : \A j \in DOMAIN pile :
        (i < j /\ pile[i].face_up) => pile[j].face_up

\* C29: in every state reached from a deal by draw, moveCards and setDrawCount,
\* in each tableau pile the face-down cards lie under the face-up ones, the top
\* of a pile that has cards is face-up and the face-up cards descend by one rank
\* with alternating colours; and a moveCards whose source is a face-up card of a
\* tableau pile is not rejected as a face-down or an invalid run.
C29_FaceUpRun ==
    /\ \A p \in DOMAIN state.tableau :
          /\ DownThenUp(state.tableau[p])
          /\ state.tableau[p] # <<>> => Top(state.tableau[p]).face_up
          /\ Alternating(FaceUpCards(state.tableau[p]))
    /\ (/\ call.op = "moveCards"
        /\ InRange(call.before, call.request.from)
        /\ Suffix(call.before, call.request.from)[1].face_up)
       => call.thrown \notin {"Cannot move face-down cards", "Tableau run is invalid"}

\* C29 witness: a moveCards offered a run of two face-up cards with a face-down
\* card under it, and the pile still holds all three.
C29_Witness ==
    /\ call.op = "moveCards"
    /\ InRange(call.before, call.request.from)
    /\ Len(Suffix(call.before, call.request.from)) = 2
    /\ Suffix(call.before, call.request.from)[1].face_up
    /\ LET pile == state.tableau[Val(call.request.from.index) + 1]
       IN  /\ Len(pile) >= 3
           /\ ~pile[Len(pile) - 2].face_up
           /\ Len(FaceUpCards(pile)) = 2

\* number of face-down cards in the tableau piles `piles`
RECURSIVE FaceDownIn(_)
FaceDownIn(piles) ==
    IF piles = <<>> THEN 0
    ELSE Len(SelectSeq(Head(piles), LAMBDA entry : ~entry.face_up)) + FaceDownIn(Tail(piles))

\* number of cards in the stock and the waste together
InHand(game) == Len(game.stock) + Len(game.waste)

\* face-down cards of a deal: pile i (counted from 0) has i of them
FaceDownDealt == (NumPiles * (NumPiles - 1)) \div 2

\* C30: a draw() or a moveCards() never raises the number of face-down tableau
\* cards nor the number of cards in stock and waste together, so that within a
\* game neither number ever exceeds what the deal gave.
C30_MonotoneProgress ==
    /\ call.op \in {"draw", "moveCards"}
       => /\ FaceDownIn(state.tableau) <= FaceDownIn(call.before.tableau)
          /\ InHand(state) <= InHand(call.before)
    /\ FaceDownIn(state.tableau) <= FaceDownDealt
    /\ InHand(state) <= StockDealt

\* C30 witness: a moveCards between tableau piles or to a foundation has turned
\* a card face-up, in a game in which cards have already left the waste.
C30_Witness ==
    /\ Accepted("moveCards")
    /\ FaceDownIn(state.tableau) < FaceDownIn(call.before.tableau)
    /\ InHand(state) < StockDealt
    /\ InHand(state) = InHand(call.before)

\* C30 witness of the other half: a card left a foundation for the tableau and
\* the stock and the waste stayed as they were.
C30_FoundationGaveBack ==
    /\ Accepted("moveCards")
    /\ call.request.from.kind = "foundation"
    /\ InHand(state) = InHand(call.before)

\* the operation that has just run is one that pushes a snapshot: a drawCard, a
\* setDrawMode, or a performMove the backend accepted
Pushing ==
    \/ event.op \in {"drawCard", "setDrawMode"}
    \/ event.op = "performMove" /\ call.thrown = ""

\* C23: a drawCard, an accepted performMove and a setDrawMode leave on top of the
\* undo stack the game as it was shown, and as the engine had it, immediately
\* before; an undo() with that stack makes the game shown, the draw mode and the
\* engine's state equal to the top snapshot and takes that one entry off.
C23_UndoRoundTrip ==
    /\ Pushing
       => /\ session.undoStack # <<>>
          /\ Top(session.undoStack) = Val(event.before.game)
          /\ Top(session.undoStack) = call.before
    /\ (event.op = "undo" /\ canUndo(event.before))
       => LET snapshot == Top(event.before.undoStack)
          IN  /\ session.game = Some(snapshot)
              /\ state = snapshot
              /\ session.drawMode = snapshot.draw_count
              /\ session.undoStack = Pop(event.before.undoStack)
              /\ Len(session.undoStack) = Len(event.before.undoStack) - 1

\* C23 witness: an undo() has taken back a move: the tableau shown differs from
\* the one shown before the undo, and it is the engine's again.
C23_Witness ==
    /\ event.op = "undo"
    /\ canUndo(event.before)
    /\ Val(session.game).tableau # Val(event.before.game).tableau
    /\ state = Val(session.game)

\* C24: the undo stack never holds more than UndoCap snapshots (200 in the
\* source); a push onto a full stack drops the oldest snapshot and keeps the
\* others in their order under the new one, a push onto any other stack keeps
\* them all.
C24_UndoStackBound ==
    /\ Len(session.undoStack) <= UndoCap
    /\ Pushing
       => session.undoStack =
             (IF Len(event.before.undoStack) = UndoCap
              THEN Tail(event.before.undoStack)
              ELSE event.before.undoStack) \o <<Val(event.before.game)>>

\* C24 witness: a snapshot was pushed onto a full stack of snapshots that differ
\* from each other, and the oldest one is gone.
C24_Witness ==
    /\ Pushing
    /\ Len(event.before.undoStack) = UndoCap
    /\ \A i \in 1..UndoCap : \A j \in 1..UndoCap :
          i # j => event.before.undoStack[i] # event.before.undoStack[j]
    /\ \A i \in 1..Len(session.undoStack) :
          session.undoStack[i] # event.before.undoStack[1]

\* C25: a performMove that the backend rejects leaves the game shown, the undo
\* stack, the selection and the engine's state as they were and sets the
\* message to the reason; one that is accepted pushes the game shown before the
\* move, as one snapshot, and clears the selection and the message.
C25_RejectedMoveOnlyMessage ==
    event.op = "performMove"
    => IF call.thrown # ""
       THEN /\ session = [event.before EXCEPT !.message = call.thrown]
            /\ state = call.before
       ELSE /\ session.undoStack =
                  (IF Len(event.before.undoStack) = UndoCap
                   THEN Tail(event.before.undoStack)
                   ELSE event.before.undoStack) \o <<Val(event.before.game)>>
            /\ session.selection = Undefined
            /\ session.message = ""
            /\ session.game = Some(state)
            /\ session.drawMode = event.before.drawMode

\* C25 witness: a performMove was rejected in a session that had a selection and
\* a snapshot on the undo stack.
C25_Witness ==
    /\ event.op = "performMove"
    /\ call.thrown # ""
    /\ session.message = call.thrown
    /\ session.selection # Undefined
    /\ canUndo(session)

\* C25 witness of the other half: a performMove was accepted in a session that
\* had a snapshot on the undo stack.
C25_Accepted ==
    /\ event.op = "performMove"
    /\ call.thrown = ""
    /\ canUndo(event.before)

\* C26: a drawCard, a performMove or a setDrawMode that leaves the game as it
\* was pushes nothing, and the snapshot that any of them pushes differs from the
\* game that results.
C26_EntriesRecordChange ==
    event.op \in {"drawCard", "performMove", "setDrawMode"}
    => IF session.game = event.before.game
       THEN session.undoStack = event.before.undoStack
       ELSE Top(session.undoStack) # Val(session.game)

\* C26, as the code has it: a drawCard with the stock and the waste both empty
\* pushed a snapshot equal to the game that resulted.
C26_IdleDrawPushed ==
    /\ event.op = "drawCard"
    /\ call.before.stock = <<>> /\ call.before.waste = <<>>
    /\ session.game = event.before.game
    /\ Len(session.undoStack) = Len(event.before.undoStack) + 1
    /\ Top(session.undoStack) = Val(session.game)

\* C26, as the code has it: a setDrawMode to the mode in force pushed a snapshot.
C26_SameModePushed ==
    /\ event.op = "setDrawMode"
    /\ session.drawMode = event.before.drawMode
    /\ session.game = event.before.game
    /\ Len(session.undoStack) = Len(event.before.undoStack) + 1

\* C27: after the composable's newGame() the undo stack is empty and canUndo is
\* false, and an undo() on an empty stack changes neither the session nor the
\* engine's state.
C27_FreshUndoHistory ==
    /\ event.op = "newGame"
       => /\ session.undoStack = <<>>
          /\ ~canUndo(session)
          /\ session.game = Some(state)
    /\ (event.op = "undo" /\ ~canUndo(event.before))
       => /\ session = event.before
          /\ state = call.before
          /\ call.op = "none"

\* C27 witness: newGame() ran in a session that had snapshots to go back to.
C27_Witness ==
    /\ event.op = "newGame"
    /\ canUndo(event.before)
    /\ ~canUndo(session)

\* C27 witness of the other half: undo() ran on an empty stack after cards had
\* been dealt anew or the game had been finished.
C27_UndoOnEmpty ==
    /\ event.op = "undo"
    /\ ~canUndo(event.before)
    /\ calls >= MaxCalls - SessionCalls + 2

\* C31: in every state reached from a deal by the exported calls, accepted or
\* rejected, draw_count is 1 or 3, and a call other than an accepted
\* setDrawCount or a newGame leaves it as it was.
C31_DrawCountLegal ==
    /\ state.draw_count \in {1, 3}
    /\ (call.op \notin {"none", "newGame"} /\ ~Accepted("setDrawCount"))
       => state.draw_count = call.before.draw_count
    /\ Accepted("setDrawCount") => state.draw_count = call.drawCount

\* C31 witness: in draw-1 mode a setDrawCount(2) was rejected.
C31_Witness ==
    /\ Rejected("setDrawCount")
    /\ call.drawCount = 2
    /\ call.before.draw_count = 1
    /\ state.draw_count = 1

\* C32: in a session with a game loaded, after every operation of the
\* composable, drawMode is the draw_count of the game shown and the game shown
\* is the engine's state.
C32_DrawModeMirrorsEngine ==
    ~IsUndefined(session.game)
    => /\ session.drawMode = Val(session.game).draw_count
       /\ Val(session.game) = state

\* C32 witness: an undo() has taken back a change of the draw mode, and drawMode
\* went back with the game.
C32_Witness ==
    /\ event.op = "undo"
    /\ canUndo(event.before)
    /\ session.drawMode # event.before.drawMode
    /\ session.drawMode = state.draw_count

\* C32 witness of another operation: simulateWin ran in draw-1 mode.
C32_WinInDrawOne ==
    /\ event.op = "simulateWin"
    /\ session.drawMode = 1
    /\ state.draw_count = 1

\* the Selection names a card of `game` that can be the source of a move: the
\* top of a waste that has cards, the top of the foundation of that index if
\* it has cards, a face-up card at that index of that tableau pile
Movable(selected, game) ==
    \/ selected.kind = "waste" /\ game.waste # <<>>
    \/ /\ selected.kind = "foundation"
       /\ \E f \in DOMAIN game.foundations :
             selected.index = Some(f - 1) /\ game.foundations[f] # <<>>
    \/ /\ selected.kind = "tableau"
       /\ \E p \in DOMAIN game.tableau : \E c \in DOMAIN game.tableau[p] :
             /\ selected.index = Some(p - 1)
             /\ selected.cardIndex = Some(c - 1)
             /\ game.tableau[p][c].face_up

\* C33: whenever the session has a selection, a game is shown and the selection
\* names a movable card of it; the operations that change the piles leave no
\* selection.
C33_SelectionNotStale ==
    /\ ~IsUndefined(session.selection)
       => /\ ~IsUndefined(session.game)
          /\ Movable(Val(session.selection), Val(session.game))
    /\ (\/ event.op \in {"drawCard", "undo", "newGame", "simulateWin"} /\ call.op # "none"
        \/ event.op = "performMove" /\ call.thrown = "")
       => IsUndefined(session.selection)

\* C33 witness: an accepted move took the selected card away, so that what was
\* selected names no movable card of the game now shown, and nothing is selected.
C33_Witness ==
    /\ event.op = "performMove"
    /\ call.thrown = ""
    /\ ~IsUndefined(event.before.selection)
    /\ ~Movable(Val(event.before.selection), Val(session.game))
    /\ IsUndefined(session.selection)

\* C33 witness of a selection that stays: a rejected move or a setDrawMode kept
\* the selection, which still names a movable card.
C33_SelectionKept ==
    /\ event.op \in {"performMove", "setDrawMode"}
    /\ ~IsUndefined(session.selection)
    /\ session.selection = event.before.selection

\* the engine accepts the move of the drag source to foundation `index`
EngineTakes(dragSource, index) ==
    applyMove(state,
              [from |-> fromRef(dragSource),
               to |-> [kind |-> "foundation", index |-> Some(index),
                       card_index |-> Undefined]]).thrown = ""

\* C34: for the game shown, every drag source and every foundation index,
\* canDropOnFoundation(index) is true exactly when the engine accepts moveCards
\* from that source to that foundation.
C34_DropTestAgrees ==
    ~IsUndefined(session.game)
    => \A dragSource \in DragSources(Val(session.game)) :
          \A index \in 0..3 :
             canDropOnFoundation(session.game, Some(dragSource), index)
                 <=> EngineTakes(dragSource, index)

\* C34, as the code has it: the drop test lets through a drag of two tableau
\* cards whose first card fits the foundation, and the engine rejects the move.
C34_RunOffered ==
    /\ ~IsUndefined(session.game)
    /\ \E dragSource \in DragSources(Val(session.game)) :
          \E index \in 0..3 :
             /\ dragSource.kind = "tableau"
             /\ Val(dragSource.cardIndex) + 1
                    < Len(Val(session.game).tableau[Val(dragSource.index) + 1])
             /\ canDropOnFoundation(session.game, Some(dragSource), index)
             /\ ~EngineTakes(dragSource, index)

\* C34, as the code has it: the drop test refuses an Ace on an empty foundation
\* that the engine accepts it on.
C34_AceRefused ==
    /\ ~IsUndefined(session.game)
    /\ \E dragSource \in DragSources(Val(session.game)) :
          \E index \in 0..3 :
             /\ Val(session.game).foundations[index + 1] = <<>>
             /\ ~canDropOnFoundation(session.game, Some(dragSource), index)
             /\ EngineTakes(dragSource, index)

\* C34, the part that holds: for a drag of one card the drop test is true only
\* if the engine accepts the move, and it is true whenever the engine accepts
\* the move onto a foundation that has cards.
C34_AgreesOtherwise ==
    ~IsUndefined(session.game)
    => \A dragSource \in DragSources(Val(session.game)) :
          \A index \in 0..3 :
             /\ (/\ canDropOnFoundation(session.game, Some(dragSource), index)
                 /\ dragSource.kind = "tableau"
                    => Val(dragSource.cardIndex) + 1
                           = Len(Val(session.game).tableau[Val(dragSource.index) + 1]))
                => EngineTakes(dragSource, index)
             /\ (/\ EngineTakes(dragSource, index)
                 /\ Val(session.game).foundations[index + 1] # <<>>)
                => canDropOnFoundation(session.game, Some(dragSource), index)

====
